---- MODULE Spec2Model ----
(***************************************************************************)
(* Store monitoring: uptime/downtime report service.                       *)
(*                                                                         *)
(* Instants are integer seconds counted from a Monday 00:00:00 UTC.  A     *)
(* timezone is its UTC offset in seconds (pytz zones without a DST change  *)
(* inside the modelled fortnight).  Times of day ('HH:MM:SS' strings in    *)
(* the source, compared as strings) are seconds after midnight: for        *)
(* zero-padded strings the string order is the numeric order.              *)
(*                                                                         *)
(* Amounts of business time, uptime and downtime are held in MINUTES for   *)
(* all three windows; the source holds the day and week amounts in hours   *)
(* (minutes / 60), which is applied where the source's unit matters (the   *)
(* 0.1 tolerance, the rounding to two decimals).  Observation timestamps   *)
(* and the current-time anchor are whole minutes, so every amount before   *)
(* the proportional scaling is a whole number of minutes; a scaled amount  *)
(* is the exact fraction num / den.                                        *)
(***************************************************************************)
EXTENDS Integers, FiniteSets, Sequences, TLC

VARIABLES
    store_status,     \* table store_status: sequence of observations (index = row id)
    business_hours,   \* table business_hours: sequence of rules
    store_timezones,  \* table store_timezones: store_id -> timezone_str
    current_time,     \* DataService._current_time: the anchor (max timestamp)
    calls,            \* results returned by the calls of _calculate_metrics so far
    probes,           \* the last evaluation of _is_business_time
    queries,          \* worker -> the call of get_store_status_data it is in
    metrics_memo,     \* whether the server is up, and store_id -> _calculate_metrics(store_id)
    reports,          \* app.reports: report_id -> registry entry
    thread,           \* report_id -> position of that job's worker thread
    files,            \* reports/<report_id>.csv: report_id -> file on disk
    responses         \* what get_report answered so far

vars == <<store_status, business_hours, store_timezones, current_time, calls, probes,
          queries, metrics_memo, reports, thread, files, responses>>

db == <<store_status, business_hours, store_timezones, current_time>>

job_vars == <<metrics_memo, reports, thread, files, responses>>

-----------------------------------------------------------------------------
(* Arithmetic helpers *)

Min(a, b) == IF a <= b THEN a ELSE b

Max(a, b) == IF a >= b THEN a ELSE b

Abs(a) == IF a >= 0 THEN a ELSE 0 - a

CeilDiv(a, b) == (a + b - 1) \div b

Hour == 60 * 60

Day == 24 * Hour

\* 'HH:MM:SS' as seconds after midnight
HMS(h, m, s) == h * Hour + m * 60 + s

-----------------------------------------------------------------------------
(* utils/time_utils.py *)

\* get_local_time: utc_time.astimezone(timezone)
get_local_time(utc_time, timezone) == utc_time + timezone

\* datetime.weekday(): 0 = Monday
weekday(local_time) == (local_time \div Day) % 7

\* strftime('%H:%M:%S') of a local time
time_of_day(local_time) == local_time % Day

-----------------------------------------------------------------------------
(* ReportService._is_business_time *)

\* start_parts[0] * 60 + start_parts[1]: the seconds are dropped
minutes_of(time_str) == time_str \div 60

\* A rule makes the loop return True: the overnight test on whole minutes,
\* or the plain string comparison of a rule of at least 10 minutes.
rule_returns_true(hours, time_str) ==
    LET start_minutes == minutes_of(hours.start_time_local)
        end_minutes == minutes_of(hours.end_time_local)
        current_minutes == minutes_of(time_str)
    IN  \/ /\ end_minutes < start_minutes
           /\ (start_minutes <= current_minutes \/ current_minutes <= end_minutes)
        \/ /\ ~(end_minutes - start_minutes < 10)
           /\ hours.start_time_local <= time_str
           /\ time_str <= hours.end_time_local

\* unreasonable_hours is set by any rule of the day with end - start < 10
\* minutes (an overnight rule has a negative difference and sets it too).
rule_unreasonable(hours) ==
    minutes_of(hours.end_time_local) - minutes_of(hours.start_time_local) < 10

\* The (start, end) pair that occurs most often among all the rules; max()
\* over a dict keeps the first inserted key among those with the top count.
most_common_hours(rules) ==
    LET key(i) == <<rules[i].start_time_local, rules[i].end_time_local>>
        count(i) == Cardinality({j \in 1..Len(rules) : key(j) = key(i)})
        first(i) == \A j \in 1..(i - 1) : key(j) # key(i)
        best == CHOOSE i \in 1..Len(rules) :
                    /\ first(i)
                    /\ \A j \in 1..Len(rules) : count(j) <= count(i)
                    /\ \A j \in 1..(i - 1) : first(j) => count(j) < count(i)
    IN  key(best)

_is_business_time(local_time, rules) ==
    LET day_of_week == weekday(local_time)
        time_str == time_of_day(local_time)
        today(i) == rules[i].day_of_week = day_of_week
        valid_hours_for_day == \E i \in 1..Len(rules) : today(i)
        unreasonable_hours == \E i \in 1..Len(rules) : today(i) /\ rule_unreasonable(rules[i])
        unusual_hours ==
            \E i \in 1..Len(rules) : today(i) /\ rules[i].end_time_local = HMS(23, 59, 59)
        morning_start ==
            \E i \in 1..Len(rules) : today(i) /\ rules[i].start_time_local \div Hour < 6
        current_hour == time_str \div Hour
    IN  \/ \E i \in 1..Len(rules) : today(i) /\ rule_returns_true(rules[i], time_str)
        \/ unreasonable_hours /\ 9 <= current_hour /\ current_hour < 21
        \/ unusual_hours /\ morning_start
        \/ /\ ~valid_hours_for_day
           /\ Len(rules) > 0
           /\ LET common == most_common_hours(rules)
              IN  common[1] <= time_str /\ time_str <= common[2]

-----------------------------------------------------------------------------
(* The scanning loops of ReportService *)

\* A variant of scan_steps that runs to the end of the range.
scan_steps_to_end(local_start, local_end, increment, limit) ==
    CeilDiv(local_end - local_start, increment)

\* iteration_count when a loop "while current < local_end and iteration_count
\* < limit" that steps by increment is left.
scan_steps(local_start, local_end, increment, limit) ==
    Min(CeilDiv(local_end - local_start, increment), limit)

\* A loop "while current < local_end and iteration_count < limit" that steps
\* by increment, clips the last step to local_end and tests the midpoint of
\* each step: the seconds of the steps whose midpoint is business time.
\* Step k starts at local_start + k * increment.
scan_midpoints(local_start, local_end, increment, limit, rules) ==
    LET length == local_end - local_start
        steps == scan_steps(local_start, local_end, increment, limit)
        \* the steps of a full increment, and the clipped step that ends the range
        whole == Min(length \div increment, steps)
        open == {k \in 0..(whole - 1) :
                    _is_business_time(local_start + k * increment + increment \div 2, rules)}
        from == local_start + whole * increment
        clipped == IF steps > whole
                      /\ _is_business_time(from + (local_end - from) \div 2, rules)
                   THEN local_end - from ELSE 0
    IN  Cardinality(open) * increment + clipped

-----------------------------------------------------------------------------
(* Total business time of a range *)

\* A variant of _calculate_business_minutes_in_range without the test of the
\* range at its head.
business_minutes_unchecked_range(start_time, end_time, rules, timezone) ==
    LET max_possible_minutes == (end_time - start_time) \div 60
        local_start == get_local_time(start_time, timezone)
        local_end == get_local_time(end_time, timezone)
        iteration_limit == Min(max_possible_minutes, 24 * 60)
        steps == Min(CeilDiv(local_end - local_start, 60), iteration_limit)
        business_minutes ==
            Cardinality({k \in 0..(steps - 1) :
                            _is_business_time(local_start + k * 60, rules)})
    IN  Min(Min(business_minutes, max_possible_minutes),
            IF end_time - start_time <= Hour THEN 60 ELSE max_possible_minutes)

\* ReportService._calculate_business_minutes_in_range: one-minute steps, each
\* tested at its start; the result is in minutes.
_calculate_business_minutes_in_range(start_time, end_time, rules, timezone) ==
    IF end_time <= start_time THEN 0
    ELSE
      LET max_possible_minutes == (end_time - start_time) \div 60
          local_start == get_local_time(start_time, timezone)
          local_end == get_local_time(end_time, timezone)
          iteration_limit == Min(max_possible_minutes, 24 * 60)
          steps == Min(CeilDiv(local_end - local_start, 60), iteration_limit)
          business_minutes ==
              Cardinality({k \in 0..(steps - 1) :
                              _is_business_time(local_start + k * 60, rules)})
      IN  Min(Min(business_minutes, max_possible_minutes),
              IF end_time - start_time <= Hour THEN 60 ELSE max_possible_minutes)

\* ReportService._calculate_business_hours_in_range: steps of 30 minutes, one
\* hour or three hours, each tested at its midpoint.  The source returns
\* hours; the value here is the same amount in minutes.
_calculate_business_hours_in_range(start_time, end_time, rules, timezone) ==
    IF end_time <= start_time THEN 0
    ELSE
      LET length == end_time - start_time
          max_possible_hours == length \div 60
          local_start == get_local_time(start_time, timezone)
          local_end == get_local_time(end_time, timezone)
          increment == IF length > 7 * Day THEN 3 * Hour
                       ELSE IF length > Day THEN Hour
                       ELSE 30 * 60
          iteration_limit == 24 * 7 * 2
          business_hours_count ==
              scan_midpoints(local_start, local_end, increment, iteration_limit, rules)
                  \div 60
      IN  Min(Min(business_hours_count, max_possible_hours),
              IF length <= Day THEN 24 * 60
              ELSE IF length <= 7 * Day THEN 168 * 60
              ELSE max_possible_hours)

\* The nominal maximum of a window, in minutes: 60 minutes, 24 hours, 168 hours.
max_of_window(time_range_type) ==
    IF time_range_type = "hour" THEN 60
    ELSE IF time_range_type = "day" THEN 24 * 60
    ELSE 168 * 60

\* A variant of total_business_time that credits every open step of the day
\* and week scans one hour, whatever the step, and applies no cap.
total_business_time_per_step(start_time, end_time, rules, timezone, time_range_type) ==
    IF time_range_type = "hour"
    THEN _calculate_business_minutes_in_range(start_time, end_time, rules, timezone)
    ELSE LET length == end_time - start_time
             increment == IF length > Day THEN Hour ELSE 30 * 60
         IN  (scan_midpoints(get_local_time(start_time, timezone),
                             get_local_time(end_time, timezone), increment, 24 * 7 * 2,
                             rules) \div increment) * 60

\* The capped total business time of a window, as computed at the head of
\* _calculate_time_range_metrics, in _interpolate_status and in
\* _calculate_metrics.
total_business_time(start_time, end_time, rules, timezone, time_range_type) ==
    IF time_range_type = "hour"
    THEN Min(_calculate_business_minutes_in_range(start_time, end_time, rules, timezone), 60)
    ELSE Min(_calculate_business_hours_in_range(start_time, end_time, rules, timezone),
             max_of_window(time_range_type))

-----------------------------------------------------------------------------
(* Business time of one interval between two observations *)

\* ReportService._calculate_business_time_in_interval: 15-minute steps tested
\* at their midpoint, at most 1000 of them; minutes.
_calculate_business_time_in_interval(local_start, local_end, rules, time_range_type) ==
    IF local_end <= local_start THEN 0
    ELSE
      LET length == (local_end - local_start) \div 60
          max_possible_time == Min(length, max_of_window(time_range_type))
          increment == 15 * 60
          max_iterations == 1000
          business_time ==
              scan_midpoints(local_start, local_end, increment, max_iterations, rules)
                  \div 60
      IN  Min(business_time, max_possible_time)

\* return business_time, 0 for an active and 0, business_time for an inactive
\* interval
by_status(status, business_time) ==
    IF status = "active" THEN <<business_time, 0>> ELSE <<0, business_time>>

\* ReportService._calculate_interval_metrics: <<uptime, downtime>> of one
\* interval, in minutes.
_calculate_interval_metrics(start_interval, end_interval, status, rules, timezone, time_range_type) ==
    IF end_interval <= start_interval THEN <<0, 0>>
    ELSE
      LET local_start == get_local_time(start_interval, timezone)
          local_end == get_local_time(end_interval, timezone)
          business_time ==
              _calculate_business_time_in_interval(local_start, local_end, rules,
                                                   time_range_type)
          interval_length == (end_interval - start_interval) \div 60
          max_business_time == Min(interval_length, max_of_window(time_range_type))
      IN  by_status(status, Min(business_time, max_business_time))

-----------------------------------------------------------------------------
(* services/data_service.py: the queries.  A query result is a sequence of  *)
(* row ids of store_status; the ORM returns one object per row, so          *)
(* "record not in results" compares row identity.                           *)

timestamp_of(id) == store_status[id].timestamp_utc

status_of(id) == store_status[id].status

rows_of_store(store_id) ==
    {id \in DOMAIN store_status : store_status[id].store_id = store_id}

\* ORDER BY timestamp_utc: ascending; rows with equal timestamps by row id.
RECURSIVE order_by_timestamp(_)
order_by_timestamp(ids) ==
    IF ids = {} THEN <<>>
    ELSE LET m == CHOOSE i \in ids :
                    \A j \in ids : \/ timestamp_of(i) < timestamp_of(j)
                                   \/ timestamp_of(i) = timestamp_of(j) /\ i <= j
         IN  <<m>> \o order_by_timestamp(ids \ {m})

\* ORDER BY timestamp_utc DESC
reversed(seq) == [i \in 1..Len(seq) |-> seq[Len(seq) + 1 - i]]

order_by_timestamp_desc(ids) == reversed(order_by_timestamp(ids))

\* .limit(n)
limit(seq, n) == SubSeq(seq, 1, Min(n, Len(seq)))

in_results(results, id) == \E i \in 1..Len(results) : results[i] = id

\* A variant of append_missing that appends none of the records found.
append_none(results, more) == results

\* A variant of append_missing that appends every record found.
append_all(results, more) == results \o more

\* for record in more: if record not in results: results.append(record)
RECURSIVE append_missing(_, _)
append_missing(results, more) ==
    IF more = <<>> THEN results
    ELSE append_missing(IF in_results(results, Head(more)) THEN results
                        ELSE Append(results, Head(more)),
                        Tail(more))

\* A variant of sort_by_timestamp that leaves the list as it was appended.
results_as_appended(results) == results

\* results.sort(key=lambda x: x.timestamp_utc): a stable sort
RECURSIVE sort_by_timestamp(_)
sort_by_timestamp(results) ==
    IF results = <<>> THEN <<>>
    ELSE LET m == CHOOSE i \in 1..Len(results) :
                    /\ \A j \in 1..Len(results) :
                          timestamp_of(results[i]) <= timestamp_of(results[j])
                    /\ \A j \in 1..(i - 1) :
                          timestamp_of(results[j]) > timestamp_of(results[i])
             rest == [k \in 1..(Len(results) - 1) |->
                         IF k < m THEN results[k] ELSE results[k + 1]]
         IN  <<results[m]>> \o sort_by_timestamp(rest)

\* pytz.timezone(name): the zones of the model and their UTC offset in
\* seconds; any other name raises UnknownTimeZoneError.
ZoneOffsets ==
    [name \in {"America/Chicago", "UTC", "Asia/Kolkata"} |->
        IF name = "America/Chicago" THEN 0 - 6 * Hour
        ELSE IF name = "UTC" THEN 0
        ELSE 5 * Hour + 30 * 60]

\* DataService.default_timezone
default_timezone == "America/Chicago"

\* DataService.get_store_timezone

get_store_timezone(store_id) ==
    IF store_id \in DOMAIN store_timezones THEN store_timezones[store_id]
    ELSE default_timezone

\* DataService._generate_24_7_hours / ReportService._generate_24_7_hours
_generate_24_7_hours(store_id) ==
    [day \in 1..7 |-> [store_id |-> store_id, day_of_week |-> day - 1,
                       start_time_local |-> HMS(0, 0, 0),
                       end_time_local |-> HMS(23, 59, 59)]]

\* ReportService._generate_standard_business_hours
_generate_standard_business_hours(store_id) ==
    [day \in 1..7 |-> [store_id |-> store_id, day_of_week |-> day - 1,
                       start_time_local |-> HMS(9, 0, 0),
                       end_time_local |-> HMS(21, 0, 0)]]

\* SELECT ... FROM business_hours WHERE store_id = ...: the rows in table order
RECURSIVE select_hours(_, _)
select_hours(table, store_id) ==
    IF table = <<>> THEN <<>>
    ELSE IF Head(table).store_id = store_id
         THEN <<Head(table)>> \o select_hours(Tail(table), store_id)
         ELSE select_hours(Tail(table), store_id)

\* A variant of get_business_hours that returns the rows found, also when
\* there is none.
get_business_hours_as_found(store_id) == select_hours(business_hours, store_id)

\* DataService.get_business_hours
get_business_hours(store_id) ==
    LET hours == select_hours(business_hours, store_id)
    IN  IF hours # <<>> THEN hours ELSE _generate_24_7_hours(store_id)

\* DataService.get_latest_status_before_range: a row id, or 0 for None
get_latest_status_before_range(store_id, start_time) ==
    LET before == {id \in rows_of_store(store_id) : timestamp_of(id) < start_time}
    IN  IF before = {} THEN 0 ELSE Head(order_by_timestamp_desc(before))

\* DataService.get_store_status_data
get_store_status_data(store_id, start_time, end_time) ==
    LET mine == rows_of_store(store_id)
        results0 == order_by_timestamp(
            {id \in mine : timestamp_of(id) >= start_time /\ timestamp_of(id) <= end_time})
        time_range == end_time - start_time
        first_third_end == start_time + time_range \div 3
        second_third_end == start_time + (time_range * 2) \div 3
        has_first_third ==
            \E i \in 1..Len(results0) : timestamp_of(results0[i]) <= first_third_end
        has_second_third ==
            \E i \in 1..Len(results0) : /\ timestamp_of(results0[i]) > first_third_end
                                        /\ timestamp_of(results0[i]) <= second_third_end
        has_last_third ==
            \E i \in 1..Len(results0) : timestamp_of(results0[i]) > second_third_end
        \* the most recent record before the range
        before == {id \in mine : timestamp_of(id) < start_time}
        results1 == IF before = {} THEN results0
                    ELSE append_missing(results0, limit(order_by_timestamp_desc(before), 1))
        \* the closest record after the range
        after == {id \in mine : timestamp_of(id) > end_time}
        results2 == IF Len(results1) < 3 /\ after # {}
                    THEN append_missing(results1, limit(order_by_timestamp(after), 1))
                    ELSE results1
        \* up to 5 records of the 72 hours before and of the 72 hours after
        extended_start == start_time - 72 * Hour
        additional_history == limit(order_by_timestamp_desc(
            {id \in mine : timestamp_of(id) >= extended_start
                           /\ timestamp_of(id) < start_time}), 5)
        extended_end == end_time + 72 * Hour
        additional_future == limit(order_by_timestamp(
            {id \in mine : timestamp_of(id) > end_time
                           /\ timestamp_of(id) <= extended_end}), 5)
        results3 == IF Len(results2) < 3
                    THEN append_missing(
                             append_missing(results2, reversed(additional_history)),
                             additional_future)
                    ELSE results2
        \* last resort: the first 10 records of the store
        any_status == limit(order_by_timestamp(mine), 10)
        results4 == IF Len(results3) < 2 THEN append_missing(results3, any_status)
                    ELSE results3
    IN  IF Len(results0) >= 3 THEN results0
        ELSE IF Len(results0) > 0 /\ has_first_third /\ has_second_third /\ has_last_third
        THEN results0
        ELSE sort_by_timestamp(results4)

\* DataService.get_all_store_ids: SELECT DISTINCT store_id FROM store_status,
\* in the order of first appearance
RECURSIVE distinct_store_ids(_, _)
distinct_store_ids(table, seen) ==
    IF table = <<>> THEN <<>>
    ELSE IF Head(table).store_id \in seen
         THEN distinct_store_ids(Tail(table), seen)
         ELSE <<Head(table).store_id>>
                  \o distinct_store_ids(Tail(table), seen \cup {Head(table).store_id})

get_all_store_ids == distinct_store_ids(store_status, {})

-----------------------------------------------------------------------------
(* ReportService._interpolate_status *)

\* An <<uptime, downtime>> pair that may have been scaled by a ratio: the
\* amounts are uptime / den and downtime / den minutes.
Amounts(uptime, downtime, den) ==
    [raised |-> "", uptime |-> uptime, downtime |-> downtime, den |-> den]

\* Line 359 and line 437 of report_service.py name StoreStatus, which the
\* module never imports: evaluating them raises NameError.
Raised(exception) == [raised |-> exception, uptime |-> 0, downtime |-> 0, den |-> 1]

\* df.sort_values('timestamp_utc') on the points of the data frame
RECURSIVE sort_values(_)
sort_values(points) ==
    IF points = <<>> THEN <<>>
    ELSE LET m == CHOOSE i \in 1..Len(points) :
                    /\ \A j \in 1..Len(points) :
                          points[i].timestamp_utc <= points[j].timestamp_utc
                    /\ \A j \in 1..(i - 1) :
                          points[j].timestamp_utc > points[i].timestamp_utc
             rest == [k \in 1..(Len(points) - 1) |->
                         IF k < m THEN points[k] ELSE points[k + 1]]
         IN  <<points[m]>> \o sort_values(rest)

\* A variant of interval_of_row without the long-gap rule: the whole interval
\* takes the status of its left endpoint.
interval_of_row_left_status(start_interval, end_interval, status, rules, timezone, time_range_type) ==
    _calculate_interval_metrics(start_interval, end_interval, status, rules, timezone,
                                time_range_type)

\* A variant of interval_of_row that splits every interval of more than three
\* hours after an inactive point, wherever its endpoints lie.
interval_of_row_any_long_gap(start_interval, end_interval, status, rules, timezone, time_range_type) ==
    IF end_interval - start_interval > 3 * 60 * 60 /\ status # "active"
    THEN <<_calculate_interval_metrics(start_interval + Hour, end_interval, "active",
                                       rules, timezone, time_range_type)[1],
           _calculate_interval_metrics(start_interval, start_interval + Hour, "inactive",
                                       rules, timezone, time_range_type)[2]>>
    ELSE _calculate_interval_metrics(start_interval, end_interval, status,
                                     rules, timezone, time_range_type)

\* uptime += ...; downtime += ... of two <<uptime, downtime>> pairs
add_pairs(a, b) == <<a[1] + b[1], a[2] + b[2]>>

\* The body of the loop over the intervals: the <<uptime, downtime>> of the
\* interval from one point to the next, with the long-gap handling. A long
\* gap after an active point is computed as the ordinary interval is, so the
\* two branches share one call.
interval_of_row(start_interval, end_interval, status, rules, timezone, time_range_type) ==
    LET interval_length == end_interval - start_interval
        max_reasonable_gap == 3 * 60 * 60
        local_start == get_local_time(start_interval, timezone)
        local_end == get_local_time(end_interval, timezone)
        start_in_business == _is_business_time(local_start, rules)
        end_in_business == _is_business_time(local_end, rules)
        first_part_end == start_interval + Hour
    IN  IF /\ interval_length > max_reasonable_gap
           /\ status # "active"
           /\ start_in_business /\ end_in_business
        THEN add_pairs(_calculate_interval_metrics(start_interval, first_part_end,
                           "inactive", rules, timezone, time_range_type),
                       _calculate_interval_metrics(first_part_end, end_interval,
                           "active", rules, timezone, time_range_type))
        ELSE _calculate_interval_metrics(start_interval, end_interval, status,
                                         rules, timezone, time_range_type)

\* uptime += interval_uptime; downtime += interval_downtime over rows i..n-1
RECURSIVE sum_intervals(_, _, _, _, _)
sum_intervals(points, i, rules, timezone, time_range_type) ==
    IF i >= Len(points) THEN <<0, 0>>
    ELSE add_pairs(interval_of_row(points[i].timestamp_utc, points[i + 1].timestamp_utc,
                                   points[i].status, rules, timezone, time_range_type),
                   sum_intervals(points, i + 1, rules, timezone, time_range_type))

\* The points of the data frame: the observations, a point at start_time with
\* the first status when every observation is later, a point at end_time with
\* the last status when every observation is earlier; sorted.
frame_points(status_data, start_time, end_time) ==
    LET df == [i \in 1..Len(status_data) |->
                  [timestamp_utc |-> timestamp_of(status_data[i]),
                   status |-> status_of(status_data[i])]]
        min == CHOOSE t \in {df[i].timestamp_utc : i \in 1..Len(df)} :
                   \A i \in 1..Len(df) : t <= df[i].timestamp_utc
        max == CHOOSE t \in {df[i].timestamp_utc : i \in 1..Len(df)} :
                   \A i \in 1..Len(df) : t >= df[i].timestamp_utc
        first_status == df[1].status
        last_status == df[Len(df)].status
        with_start == IF min > start_time
                      THEN <<[timestamp_utc |-> start_time, status |-> first_status]>> \o df
                      ELSE df
        with_end == IF max < end_time
                    THEN Append(with_start, [timestamp_utc |-> end_time, status |-> last_status])
                    ELSE with_start
    IN  sort_values(with_end)

\* Lines 576-587: each sum capped at the total business time, and both
\* scaled by total / (uptime + downtime) when they still exceed it.
scale_to_total(sums, total) ==
    LET uptime == Min(sums[1], total)
        downtime == Min(sums[2], total)
    IN  IF uptime + downtime > total /\ uptime + downtime > 0
        THEN \* ratio = total / (uptime + downtime)
             Amounts(uptime * total, downtime * total, uptime + downtime)
        ELSE Amounts(uptime, downtime, 1)

\* Lines 413-466: no observation in the range.
interpolate_no_data(historical_data, total) ==
    IF historical_data # 0 /\ status_of(historical_data) = "active"
    THEN Amounts(total, 0, 1)
    ELSE Raised("NameError")

_interpolate_status(store_id, status_data, start_time, end_time, rules, timezone, time_range_type) ==
    IF status_data = <<>>
    THEN interpolate_no_data(
             get_latest_status_before_range(store_id, start_time),
             total_business_time(start_time, end_time, rules, timezone, time_range_type))
    ELSE scale_to_total(
             sum_intervals(frame_points(status_data, start_time, end_time), 1,
                           rules, timezone, time_range_type),
             total_business_time(start_time, end_time, rules, timezone, time_range_type))

-----------------------------------------------------------------------------
(* ReportService._calculate_time_range_metrics *)

\* abs(x) > 0.1 for x = num / den minutes, in the unit of the window: 0.1
\* minute for the hour window, 0.1 hour = 6 minutes for day and week.
exceeds_tolerance(num, den, time_range_type) ==
    IF time_range_type = "hour" THEN 10 * Abs(num) > den ELSE Abs(num) > 6 * den

\* Lines 376-404: the reconciliation of the interpolator's result with the
\* total business time.
reconcile(uptime_in, downtime_in, den_in, total, time_range_type) ==
    LET uptime0 == Max(0, uptime_in)
        downtime0 == Max(0, downtime_in)
        t == total * den_in
        step1 == IF uptime0 > t THEN <<t, 0>>
                 ELSE IF downtime0 > t THEN <<0, t>>
                 ELSE IF exceeds_tolerance(uptime0 + downtime0 - t, den_in, time_range_type)
                 THEN <<uptime0, t - uptime0>>
                 ELSE <<uptime0, downtime0>>
        uptime1 == Max(0, Min(step1[1], t))
        downtime1 == Max(0, Min(step1[2], t))
    IN  IF exceeds_tolerance(uptime1 + downtime1 - t, den_in, time_range_type)
        THEN \* ratio = total / (uptime + downtime), 0 when the sum is 0
             IF uptime1 + downtime1 > 0
             THEN Amounts(uptime1 * total,
                          total * (uptime1 + downtime1) - uptime1 * total,
                          uptime1 + downtime1)
             ELSE Amounts(0, total, 1)
        ELSE Amounts(uptime1, downtime1, den_in)

\* A variant of time_range_result that takes a window without business time
\* as a window the store was down in for its whole length.
time_range_result_closed_as_down(total, status_data, extended_status_data, last_known, interpolated, time_range_type) ==
    IF total <= 0 THEN Amounts(0, max_of_window(time_range_type), 1)
    ELSE IF status_data = <<>>
    THEN IF extended_status_data # <<>>
         THEN IF status_of(extended_status_data[Len(extended_status_data)]) = "active"
              THEN Amounts(total, 0, 1)
              ELSE Amounts(0, total, 1)
         ELSE IF last_known # 0
         THEN IF status_of(last_known) = "active" THEN Amounts(total, 0, 1)
              ELSE Amounts(0, total, 1)
         ELSE Raised("NameError")
    ELSE IF interpolated.raised # "" THEN interpolated
    ELSE reconcile(interpolated.uptime, interpolated.downtime, interpolated.den,
                   total, time_range_type)

\* Lines 318-404 on the values the method has fetched: the total business
\* time, the observations in the range, those of the seven days before it,
\* the last observation before the range and the interpolator's result.
time_range_result(total, status_data, extended_status_data, last_known, interpolated, time_range_type) ==
    IF total <= 0 THEN Amounts(0, 0, 1)
    ELSE IF status_data = <<>>
    THEN IF extended_status_data # <<>>
         THEN IF status_of(extended_status_data[Len(extended_status_data)]) = "active"
              THEN Amounts(total, 0, 1)
              ELSE Amounts(0, total, 1)
         ELSE IF last_known # 0
         THEN IF status_of(last_known) = "active" THEN Amounts(total, 0, 1)
              ELSE Amounts(0, total, 1)
         ELSE Raised("NameError")
    ELSE IF interpolated.raised # "" THEN interpolated
    ELSE reconcile(interpolated.uptime, interpolated.downtime, interpolated.den,
                   total, time_range_type)

_calculate_time_range_metrics(store_id, start_time, end_time, rules, timezone, time_range_type) ==
    time_range_result(
        total_business_time(start_time, end_time, rules, timezone, time_range_type),
        get_store_status_data(store_id, start_time, end_time),
        get_store_status_data(store_id, start_time - 7 * Day, start_time),
        get_latest_status_before_range(store_id, start_time),
        _interpolate_status(store_id, get_store_status_data(store_id, start_time, end_time),
                            start_time, end_time, rules, timezone, time_range_type),
        time_range_type)

-----------------------------------------------------------------------------
(* ReportService._calculate_metrics *)

WindowTypes == {"hour", "day", "week"}

\* last_hour_start, last_day_start, last_week_start
window_start(time_range_type) ==
    IF time_range_type = "hour" THEN current_time - Hour
    ELSE IF time_range_type = "day" THEN current_time - Day
    ELSE current_time - 7 * Day

\* Lines 170-181: the minutes between start and end of a rule, an end before
\* the start being on the next day.
rule_duration(hours) ==
    LET start_minutes == minutes_of(hours.start_time_local)
        end_minutes == minutes_of(hours.end_time_local)
    IN  IF end_minutes < start_minutes THEN end_minutes + 24 * 60 - start_minutes
        ELSE end_minutes - start_minutes

RECURSIVE total_weekly_minutes(_)
total_weekly_minutes(rules) ==
    IF rules = <<>> THEN 0
    ELSE rule_duration(Head(rules)) + total_weekly_minutes(Tail(rules))

\* A variant of business_hours_for_metrics that keeps the stored rules however
\* short they are.
business_hours_as_stored(store_id) ==
    LET hours == get_business_hours(store_id)
    IN  IF hours = <<>> THEN _generate_24_7_hours(store_id) ELSE hours

\* Lines 149-192: the schedule every window of the store is computed with.
business_hours_for_metrics(store_id) ==
    LET hours == get_business_hours(store_id)
    IN  IF hours = <<>> THEN _generate_24_7_hours(store_id)
        ELSE IF total_weekly_minutes(hours) < 600
        THEN _generate_standard_business_hours(store_id)
        ELSE hours

\* Python's round() of the fraction a / b >= 0 to an integer: to the nearest,
\* a tie to the even neighbour.
round_half_even(a, b) ==
    LET q == (2 * a + b) \div (2 * b)
        tie == (2 * a + b) % (2 * b) = 0
    IN  IF tie /\ q % 2 = 1 THEN q - 1 ELSE q

\* round(value, 2) of num / den minutes in the unit of the window, as a whole
\* number of hundredths: of a minute for the hour window, of an hour (100 / 60
\* = 5 / 3 per minute) for the day and week windows.
round2(num, den, time_range_type) ==
    IF time_range_type = "hour" THEN round_half_even(100 * num, den)
    ELSE round_half_even(5 * num, 3 * den)

\* A variant of final_amounts that takes the whole total as the downtime.
final_amounts_downtime_total(metrics, total) ==
    LET uptime == Max(0, Min(metrics.uptime, total * metrics.den))
    IN  Amounts(uptime, total * metrics.den, metrics.den)

\* Lines 236-260 for one window: the total business time recomputed, the
\* uptime clipped to it and the downtime taken as total - uptime.
final_amounts(metrics, total) ==
    LET uptime == Max(0, Min(metrics.uptime, total * metrics.den))
        downtime == Max(0, total * metrics.den - uptime)
    IN  Amounts(uptime, downtime, metrics.den)

\* Lines 263-271: the row of the report, its six figures in hundredths.
report_row(store_id, final) ==
    [store_id |-> store_id,
     uptime_last_hour |-> round2(final["hour"].uptime, final["hour"].den, "hour"),
     uptime_last_day |-> round2(final["day"].uptime, final["day"].den, "day"),
     uptime_last_week |-> round2(final["week"].uptime, final["week"].den, "week"),
     downtime_last_hour |-> round2(final["hour"].downtime, final["hour"].den, "hour"),
     downtime_last_day |-> round2(final["day"].downtime, final["day"].den, "day"),
     downtime_last_week |-> round2(final["week"].downtime, final["week"].den, "week")]

\* A call that ends by an exception returns nothing.
metrics_raised(store_id, exception) ==
    [store_id |-> store_id, raised |-> exception, window |-> <<>>, total |-> <<>>,
     row |-> <<>>]

\* Lines 236-271 on the metrics and the total business time of the windows:
\* the amounts clipped and the row rounded.
metrics_returned(store_id, window, total) ==
    [store_id |-> store_id, raised |-> "", window |-> window, total |-> total,
     row |-> report_row(store_id, [hour |-> final_amounts(window.hour, total.hour),
                                   day |-> final_amounts(window.day, total.day),
                                   week |-> final_amounts(window.week, total.week)])]

\* Lines 215-271 on the window metrics and totals: the first exception of the
\* windows in the order hour, day, week, else the row.
metrics_of_windows(store_id, last_hour_metrics, last_day_metrics, last_week_metrics, total_hour, total_day, total_week) ==
    IF last_hour_metrics.raised # "" THEN metrics_raised(store_id, last_hour_metrics.raised)
    ELSE IF last_day_metrics.raised # "" THEN metrics_raised(store_id, last_day_metrics.raised)
    ELSE IF last_week_metrics.raised # "" THEN metrics_raised(store_id, last_week_metrics.raised)
    ELSE metrics_returned(store_id,
             [hour |-> last_hour_metrics, day |-> last_day_metrics, week |-> last_week_metrics],
             [hour |-> total_hour, day |-> total_day, week |-> total_week])

\* Lines 215-250: the metrics and the total business time of one window
\* ending at the current time.
window_metrics(store_id, rules, timezone, w) ==
    _calculate_time_range_metrics(store_id, window_start(w), current_time, rules, timezone, w)

window_total(rules, timezone, w) ==
    total_business_time(window_start(w), current_time, rules, timezone, w)

\* Lines 139-271 on the timezone name and the schedule of the store.
metrics_in_zone(store_id, timezone_str, rules) ==
    \* pytz.timezone(timezone_str) raises for an unknown zone name
    IF timezone_str \notin DOMAIN ZoneOffsets
    THEN metrics_raised(store_id, "UnknownTimeZoneError")
    ELSE metrics_of_windows(store_id,
             window_metrics(store_id, rules, ZoneOffsets[timezone_str], "hour"),
             window_metrics(store_id, rules, ZoneOffsets[timezone_str], "day"),
             window_metrics(store_id, rules, ZoneOffsets[timezone_str], "week"),
             window_total(rules, ZoneOffsets[timezone_str], "hour"),
             window_total(rules, ZoneOffsets[timezone_str], "day"),
             window_total(rules, ZoneOffsets[timezone_str], "week"))

\* The result of one call: the exception raised ("" when none), the window
\* metrics returned by _calculate_time_range_metrics, the capped totals and
\* the row of the report.
_calculate_metrics(store_id) ==
    metrics_in_zone(store_id, get_store_timezone(store_id),
                    business_hours_for_metrics(store_id))

-----------------------------------------------------------------------------
(* Inputs of the metrics computation *)

\* The current-time anchor: a Thursday, 12:00:00 UTC.
Anchor == 24 * Day + 12 * Hour

MaxObs == 2

MaxCalls == 2

\* How long before the anchor an observation of store s1 may lie: inside the
\* last hour, and two days before the start of the hour, day and week window.
ObsOffsets == {20 * 60, 2 * Day + Hour, 3 * Day, 9 * Day}

ObsPool == [store_id : {"s1"}, timestamp_utc : {Anchor - o : o \in ObsOffsets},
            status : {"active", "inactive"}]

\* The observation that makes the anchor the maximum timestamp of the table.
AnchorObs == [store_id |-> "s0", timestamp_utc |-> Anchor, status |-> "active"]

RECURSIVE table_of(_)
table_of(obs) ==
    IF obs = {} THEN <<>>
    ELSE LET m == CHOOSE x \in obs : \A y \in obs : x.timestamp_utc <= y.timestamp_utc
         IN  <<m>> \o table_of(obs \ {m})

\* The observation tables: up to MaxObs observations of store s1, no two at
\* the same instant, in timestamp order, and the anchor observation of s0.
ObsTables ==
    {Append(table_of(obs), AnchorObs) : obs \in {o \in SUBSET ObsPool :
          /\ Cardinality(o) <= MaxObs
          /\ \A x, y \in o : x.timestamp_utc = y.timestamp_utc => x = y}}

daily(store_id, days, start, end) ==
    [i \in 1..Len(days) |-> [store_id |-> store_id, day_of_week |-> days[i],
                             start_time_local |-> start, end_time_local |-> end]]

EveryDay == <<0, 1, 2, 3, 4, 5, 6>>

\* Business hours and timezone of store s1, as <<business_hours table,
\* store_timezones table>>: no rule and no timezone row; 09:00-10:35 every
\* day; 22:00-02:00 every day; one rule of five minutes; 09:00-17:00 Monday to
\* Friday, in UTC and in the default zone; 09:31-10:29 and 13:31-14:29 every
\* day.
StoreConfigs ==
    { << <<>>, <<>> >>,
      << daily("s1", EveryDay, HMS(9, 0, 0), HMS(10, 35, 0)), [s \in {"s1"} |-> "UTC"] >>,
      << daily("s1", EveryDay, HMS(22, 0, 0), HMS(2, 0, 0)), [s \in {"s1"} |-> "UTC"] >>,
      << daily("s1", <<0>>, HMS(9, 0, 0), HMS(9, 5, 0)), [s \in {"s1"} |-> "UTC"] >>,
      << daily("s1", <<0, 1, 2, 3, 4>>, HMS(9, 0, 0), HMS(17, 0, 0)),
         [s \in {"s1"} |-> "UTC"] >>,
      << daily("s1", <<0, 1, 2, 3, 4>>, HMS(9, 0, 0), HMS(17, 0, 0)), <<>> >>,
      << daily("s1", EveryDay, HMS(9, 31, 0), HMS(10, 29, 0))
             \o daily("s1", EveryDay, HMS(13, 31, 0), HMS(14, 29, 0)),
         [s \in {"s1"} |-> "UTC"] >> }

NoJobs == /\ reports = <<>>
          /\ thread = <<>>
          /\ files = <<>>
          /\ responses = <<>>
          /\ metrics_memo = [serving |-> FALSE, metrics |-> <<>>]

InitMetrics ==
    /\ store_status \in ObsTables
    /\ \E config \in StoreConfigs : /\ business_hours = config[1]
                                    /\ store_timezones = config[2]
    /\ current_time = Anchor
    /\ calls = <<>>
    /\ probes = <<>>
    /\ queries = <<>>
    /\ NoJobs

\* A variant of CalculateMetrics that stores the end point it synthesizes as
\* an observation of the store.
CalculateMetricsStoring(store_id) ==
    /\ Len(calls) < MaxCalls
    /\ calls' = Append(calls, _calculate_metrics(store_id))
    /\ store_status' = Append(store_status, [store_id |-> store_id,
                                             timestamp_utc |-> current_time,
                                             status |-> "active"])
    /\ UNCHANGED <<business_hours, store_timezones, current_time, probes, queries, job_vars>>

\* One call of ReportService._calculate_metrics
CalculateMetrics(store_id) ==
    /\ Len(calls) < MaxCalls
    /\ calls' = Append(calls, _calculate_metrics(store_id))
    /\ UNCHANGED <<db, probes, queries, job_vars>>

NextMetrics == CalculateMetrics("s1")

SpecMetrics == InitMetrics /\ [][NextMetrics]_vars

\* One turn of the loop of _interpolate_status over the intervals, for the
\* window w of store s1: the points of the frame built from the observations
\* get_store_status_data returns, and the amounts of the i-th interval.  One
\* turn is looked at in a behaviour.
IntervalOfRow(w, i) ==
    LET status_data == get_store_status_data("s1", window_start(w), current_time)
        points == frame_points(status_data, window_start(w), current_time)
    IN  /\ probes = <<>>
        /\ status_data # <<>>
        /\ i < Len(points)
        /\ probes' = <<[time_range_type |-> w,
                        start_interval |-> points[i].timestamp_utc,
                        end_interval |-> points[i + 1].timestamp_utc,
                        status |-> points[i].status,
                        interval |-> interval_of_row(points[i].timestamp_utc,
                                         points[i + 1].timestamp_utc, points[i].status,
                                         business_hours_for_metrics("s1"),
                                         ZoneOffsets[get_store_timezone("s1")], w)]>>
        /\ UNCHANGED <<db, calls, queries, job_vars>>

NextIntervals == \E w \in WindowTypes : \E i \in 1..(MaxObs + 2) : IntervalOfRow(w, i)

SpecIntervals == InitMetrics /\ [][NextIntervals]_vars

\* The observation tables of the scans: the anchor observation alone, and
\* with two observations of store s1 at one and the same instant of the last
\* hour.
ScanTables ==
    { <<AnchorObs>>,
      <<[store_id |-> "s1", timestamp_utc |-> Anchor - 20 * 60, status |-> "inactive"],
        [store_id |-> "s1", timestamp_utc |-> Anchor - 20 * 60, status |-> "active"],
        AnchorObs>> }

\* The instants a measured range starts and ends at: from eleven days before
\* the anchor to the anchor.
RangeStarts == {Anchor - 11 * Day, Anchor - Day, Anchor - 20 * 60, Anchor}

RangeEnds == {Anchor - Hour, Anchor}

InitScan ==
    /\ store_status \in ScanTables
    /\ \E config \in StoreConfigs : /\ business_hours = config[1]
                                    /\ store_timezones = config[2]
    /\ current_time = Anchor
    /\ calls = <<>>
    /\ probes = <<>>
    /\ queries = <<>>
    /\ NoJobs

\* One call of each function that measures the business time of a range, on
\* the range from start_time to end_time with the schedule and the zone of
\* store s1: _calculate_interval_metrics, _calculate_business_time_in_interval
\* with the number of turns of its loop, and the two scans of the total.  One
\* range is measured in a behaviour, before or after the turn looked at.
MeasureRange(start_time, end_time, status, w) ==
    LET rules == business_hours_for_metrics("s1")
        timezone == ZoneOffsets[get_store_timezone("s1")]
        local_start == get_local_time(start_time, timezone)
        local_end == get_local_time(end_time, timezone)
    IN  /\ \A i \in 1..Len(probes) : "interval" \in DOMAIN probes[i]
        /\ probes' = Append(probes,
                       [time_range_type |-> w, start_time |-> start_time,
                        end_time |-> end_time, status |-> status,
                        interval_metrics |->
                            _calculate_interval_metrics(start_time, end_time, status,
                                                        rules, timezone, w),
                        business_time |->
                            _calculate_business_time_in_interval(local_start, local_end,
                                                                 rules, w),
                        iteration_count |->
                            IF local_end <= local_start THEN 0
                            ELSE scan_steps(local_start, local_end, 15 * 60, 1000),
                        business_minutes |->
                            _calculate_business_minutes_in_range(start_time, end_time,
                                                                 rules, timezone),
                        business_hours_count |->
                            _calculate_business_hours_in_range(start_time, end_time,
                                                               rules, timezone)])
        /\ UNCHANGED <<db, calls, queries, job_vars>>

NextScan ==
    \/ \E start_time \in RangeStarts : \E end_time \in RangeEnds :
          \E status \in {"active", "inactive"} : \E w \in WindowTypes :
              MeasureRange(start_time, end_time, status, w)
    \/ \E i \in 1..(MaxObs + 2) : IntervalOfRow("hour", i)

SpecScan == InitScan /\ [][NextScan]_vars

-----------------------------------------------------------------------------
(* Inputs of _is_business_time *)

\* The business hours tables of store s1 the open test is probed with: no
\* rule; 22:00-02:00 on Monday only and on every day; one rule of five minutes;
\* two rules of less than ten minutes; 09:00-17:00 Monday to Friday; Monday
\* 09:00-17:00 with a second Monday rule of five minutes; 05:00-23:59:59
\* Monday to Friday.
OpenHoursTables ==
    { <<>>,
      daily("s1", <<0>>, HMS(22, 0, 0), HMS(2, 0, 0)),
      daily("s1", EveryDay, HMS(22, 0, 0), HMS(2, 0, 0)),
      daily("s1", <<0>>, HMS(9, 0, 0), HMS(9, 5, 0)),
      daily("s1", <<0>>, HMS(9, 0, 0), HMS(9, 5, 0))
          \o daily("s1", <<2>>, HMS(13, 0, 0), HMS(13, 9, 0)),
      daily("s1", <<0, 1, 2, 3, 4>>, HMS(9, 0, 0), HMS(17, 0, 0)),
      daily("s1", <<0>>, HMS(9, 0, 0), HMS(17, 0, 0))
          \o daily("s1", <<0>>, HMS(12, 0, 0), HMS(12, 5, 0)),
      daily("s1", <<0, 1, 2, 3, 4>>, HMS(5, 0, 0), HMS(23, 59, 59)) }

\* The local instants probed: the first and the last second of the day and
\* seven times in between, on each weekday.
ProbeTimes == {HMS(0, 0, 0), HMS(1, 0, 0), HMS(2, 0, 30), HMS(10, 0, 0), HMS(12, 0, 0),
               HMS(18, 0, 0), HMS(21, 30, 0), HMS(23, 0, 0), HMS(23, 59, 59)}

LocalTimes == {d * Day + t : d \in 0..6, t \in ProbeTimes}

InitOpen ==
    /\ store_status = <<AnchorObs>>
    /\ business_hours \in OpenHoursTables
    /\ store_timezones = <<>>
    /\ current_time = Anchor
    /\ calls = <<>>
    /\ probes = <<>>
    /\ queries = <<>>
    /\ NoJobs

\* One evaluation of ReportService._is_business_time at a local instant, with
\* the rules as stored for s1 and with the rules _calculate_metrics uses.
IsBusinessTime(local_time) ==
    /\ probes' = <<[local_time |-> local_time,
                    is_open |-> _is_business_time(local_time, get_business_hours("s1")),
                    metrics_open |->
                        _is_business_time(local_time, business_hours_for_metrics("s1"))]>>
    /\ UNCHANGED <<db, calls, queries, job_vars>>

\* The probes of store s1, and the metrics of store s0, which has no rule in
\* any of the tables.
NextOpen ==
    \/ \E local_time \in LocalTimes : IsBusinessTime(local_time)
    \/ CalculateMetrics("s0")

SpecOpen == InitOpen /\ [][NextOpen]_vars

-----------------------------------------------------------------------------
(* app.py: the report jobs *)

MaxJobs == 2

\* The databases the service is started on, as <<store_status, business_hours,
\* store_timezones, current_time>>: no data at all (current_time is None,
\* written 0); one store; two stores, the second with a timezone name pytz
\* does not know, followed by a third store; two stores with different
\* schedules.
JobDbs ==
    { << <<>>, <<>>, <<>>, 0 >>,
      << <<[store_id |-> "s1", timestamp_utc |-> Anchor - 20 * 60, status |-> "active"],
           [store_id |-> "s1", timestamp_utc |-> Anchor, status |-> "inactive"]>>,
         <<>>, <<>>, Anchor >>,
      << <<[store_id |-> "s1", timestamp_utc |-> Anchor - 20 * 60, status |-> "active"],
           [store_id |-> "s2", timestamp_utc |-> Anchor, status |-> "inactive"],
           [store_id |-> "s3", timestamp_utc |-> Anchor, status |-> "active"]>>,
         <<>>, [s \in {"s2"} |-> "Mars/Olympus"], Anchor >>,
      << <<[store_id |-> "s1", timestamp_utc |-> Anchor - 20 * 60, status |-> "inactive"],
           [store_id |-> "s2", timestamp_utc |-> Anchor, status |-> "active"]>>,
         daily("s2", <<0, 1, 2, 3, 4>>, HMS(9, 0, 0), HMS(17, 0, 0)),
         [s \in {"s2"} |-> "UTC"], Anchor >> }

\* The state after the module is loaded and load_data has run: the tables
\* are filled, the server is not yet up.
Init ==
    /\ \E d \in JobDbs : /\ store_status = d[1]
                         /\ business_hours = d[2]
                         /\ store_timezones = d[3]
                         /\ current_time = d[4]
    /\ calls = <<>>
    /\ probes = <<>>
    /\ queries = <<>>
    /\ metrics_memo = [serving |-> FALSE, metrics |-> <<>>]
    /\ reports = <<>>
    /\ thread = <<>>
    /\ files = <<>>
    /\ responses = <<>>

\* app.run: the server starts to answer requests.  No request changes the
\* tables, so from here on _calculate_metrics has one value per store;
\* metrics_memo.metrics holds it for the workers.
app_run ==
    /\ ~metrics_memo.serving
    /\ metrics_memo' =
          [serving |-> TRUE,
           metrics |-> [s \in {store_status[i].store_id : i \in DOMAIN store_status} |->
                          _calculate_metrics(s)]]
    /\ UNCHANGED <<db, calls, probes, queries, reports, thread, files, responses>>

\* os.path.join('reports', f'{report_id}.csv')
output_file(report_id) == <<"reports", report_id>>

\* A variant of report_running with a fourth status.
report_pending == [status |-> "Pending", file_path |-> "None"]

\* A variant of report_failed that keeps the path of the output file.
report_failed_with_file(report_id, exception) ==
    [status |-> "Error", error |-> exception, file_path |-> <<"reports", report_id>>]

\* The registry entries written by trigger_report and by its worker.
report_running == [status |-> "Running", file_path |-> "None"]

report_complete(report_id) == [status |-> "Complete", file_path |-> output_file(report_id)]

report_failed(report_id, exception) == [status |-> "Error", error |-> exception]

\* The file reports/<report_id>.csv replaced by f.
write_file(report_id, f) ==
    [id \in DOMAIN files \cup {report_id} |-> IF id = report_id THEN f ELSE files[id]]

\* fieldnames of generate_report, each without its unit "(in minutes)" or
\* "(in hours)", as the keys of the row of _calculate_metrics are.
fieldnames ==
    <<"store_id", "uptime_last_hour", "uptime_last_day", "uptime_last_week",
      "downtime_last_hour", "downtime_last_day", "downtime_last_week">>

\* A variant of writerow that writes the figures window by window.
writerow_by_window(rowdict) ==
    <<rowdict.store_id, rowdict.uptime_last_hour, rowdict.downtime_last_hour,
      rowdict.uptime_last_day, rowdict.downtime_last_day,
      rowdict.uptime_last_week, rowdict.downtime_last_week>>

\* csv.DictWriter.writerow: the values of the row in the order of fieldnames
writerow(rowdict) == [i \in 1..Len(fieldnames) |-> rowdict[fieldnames[i]]]

\* trigger_report: a fresh report_id, its entry Running, its worker started.
trigger_report ==
    /\ metrics_memo.serving
    /\ Len(reports) < MaxJobs
    /\ reports' = Append(reports, report_running)
    /\ thread' = Append(thread, [pc |-> "generate_report", store_ids |-> <<>>,
                                 stores_processed |-> 0, exception |-> ""])
    /\ UNCHANGED <<db, calls, probes, queries, metrics_memo, files, responses>>

\* A variant of open_output_file that stores Complete as soon as the file is
\* created.
open_output_file_complete(report_id) ==
    /\ thread[report_id].pc = "generate_report"
    /\ thread' = [thread EXCEPT ![report_id].pc = "rows",
                                ![report_id].store_ids = get_all_store_ids]
    /\ files' = write_file(report_id, [closed |-> FALSE, header |-> fieldnames, rows |-> <<>>])
    /\ reports' = [reports EXCEPT ![report_id] = report_complete(report_id)]
    /\ UNCHANGED <<db, calls, probes, queries, metrics_memo, responses>>

\* The worker up to the header: the store ids are read, the output file is
\* created and the header written.
open_output_file(report_id) ==
    /\ thread[report_id].pc = "generate_report"
    /\ thread' = [thread EXCEPT ![report_id].pc = "rows",
                                ![report_id].store_ids = get_all_store_ids]
    /\ files' = write_file(report_id, [closed |-> FALSE, header |-> fieldnames, rows |-> <<>>])
    /\ UNCHANGED <<db, calls, probes, queries, metrics_memo, reports, responses>>

\* os.makedirs or open raises OSError: the handler of the worker records it.
open_output_file_fails(report_id) ==
    /\ thread[report_id].pc = "generate_report"
    /\ thread' = [thread EXCEPT ![report_id].pc = "done",
                                ![report_id].exception = "OSError"]
    /\ reports' = [reports EXCEPT ![report_id] = report_failed(report_id, "OSError")]
    /\ UNCHANGED <<db, calls, probes, queries, metrics_memo, files, responses>>

\* A variant of write_row that leaves out the row of a store whose metrics
\* raise and goes on with the next store.
write_row_skipping(report_id) ==
    /\ thread[report_id].pc = "rows"
    /\ thread[report_id].stores_processed < Len(thread[report_id].store_ids)
    /\ LET store_id == thread[report_id].store_ids[thread[report_id].stores_processed + 1]
           metrics == metrics_memo.metrics[store_id]
       IN  /\ thread' = [thread EXCEPT ![report_id].stores_processed = @ + 1]
           /\ files' = IF metrics.raised # "" THEN files
                       ELSE [files EXCEPT ![report_id].rows = Append(@, writerow(metrics.row))]
           /\ UNCHANGED reports
    /\ UNCHANGED <<db, calls, probes, queries, metrics_memo, responses>>

\* One turn of the loop over the stores: the row of the next store is
\* computed and written; an exception of _calculate_metrics leaves the with
\* block, which closes the file, and reaches the handler of the worker.
write_row(report_id) ==
    /\ thread[report_id].pc = "rows"
    /\ thread[report_id].stores_processed < Len(thread[report_id].store_ids)
    /\ LET store_id == thread[report_id].store_ids[thread[report_id].stores_processed + 1]
           metrics == metrics_memo.metrics[store_id]
       IN  IF metrics.raised # ""
           THEN /\ thread' = [thread EXCEPT ![report_id].pc = "done",
                                            ![report_id].exception = metrics.raised]
                /\ files' = [files EXCEPT ![report_id].closed = TRUE]
                /\ reports' = [reports EXCEPT
                                  ![report_id] = report_failed(report_id, metrics.raised)]
           ELSE /\ thread' = [thread EXCEPT ![report_id].stores_processed = @ + 1]
                /\ files' = [files EXCEPT ![report_id].rows = Append(@, writerow(metrics.row))]
                /\ UNCHANGED reports
    /\ UNCHANGED <<db, calls, probes, queries, metrics_memo, responses>>

\* The loop is over: the with block closes the file.
close_output_file(report_id) ==
    /\ thread[report_id].pc = "rows"
    /\ thread[report_id].stores_processed = Len(thread[report_id].store_ids)
    /\ thread' = [thread EXCEPT ![report_id].pc = "summary"]
    /\ files' = [files EXCEPT ![report_id].closed = TRUE]
    /\ UNCHANGED <<db, calls, probes, queries, metrics_memo, reports, responses>>

\* A variant of finish_report in which report_id is one name shared by the
\* workers: the entry written is that of the job triggered last.
finish_report_last_triggered(report_id) ==
    /\ thread[report_id].pc = "summary"
    /\ IF Len(thread[report_id].store_ids) = 0
       THEN /\ thread' = [thread EXCEPT ![report_id].pc = "done",
                                        ![report_id].exception = "ZeroDivisionError"]
            /\ reports' = [reports EXCEPT
                              ![Len(reports)] = report_failed(Len(reports), "ZeroDivisionError")]
       ELSE /\ thread' = [thread EXCEPT ![report_id].pc = "done"]
            /\ reports' = [reports EXCEPT ![Len(reports)] = report_complete(Len(reports))]
    /\ UNCHANGED <<db, calls, probes, queries, metrics_memo, files, responses>>

\* A variant of finish_report that returns without an entry in the registry.
finish_report_silent(report_id) ==
    /\ thread[report_id].pc = "summary"
    /\ thread' = [thread EXCEPT ![report_id].pc = "done"]
    /\ UNCHANGED <<db, calls, probes, queries, metrics_memo, reports, files, responses>>

\* The summary of generate_report and the return to the worker: the average
\* time per store divides by the number of stores.
finish_report(report_id) ==
    /\ thread[report_id].pc = "summary"
    /\ IF Len(thread[report_id].store_ids) = 0
       THEN /\ thread' = [thread EXCEPT ![report_id].pc = "done",
                                        ![report_id].exception = "ZeroDivisionError"]
            /\ reports' = [reports EXCEPT
                              ![report_id] = report_failed(report_id, "ZeroDivisionError")]
       ELSE /\ thread' = [thread EXCEPT ![report_id].pc = "done"]
            /\ reports' = [reports EXCEPT ![report_id] = report_complete(report_id)]
    /\ UNCHANGED <<db, calls, probes, queries, metrics_memo, files, responses>>

\* The file send_file reads, as it is on disk at that moment.
send_file(file_path) == files[file_path[2]]

\* get_report: the answer to a request; report_id 0 is a request without the
\* parameter.
get_report(report_id) ==
    /\ metrics_memo.serving
    /\ responses' =
          <<IF report_id = 0
            THEN [report_id |-> report_id, code |-> 400, status |-> "",
                  error |-> "Missing report_id parameter", file |-> <<>>]
            ELSE IF report_id \notin DOMAIN reports
            THEN [report_id |-> report_id, code |-> 404, status |-> "",
                  error |-> "Report ID not found", file |-> <<>>]
            ELSE IF reports[report_id].status = "Running"
            THEN [report_id |-> report_id, code |-> 200, status |-> "Running",
                  error |-> "", file |-> <<>>]
            ELSE IF reports[report_id].status = "Error"
            THEN [report_id |-> report_id, code |-> 500, status |-> "Error",
                  error |-> reports[report_id].error, file |-> <<>>]
            ELSE IF reports[report_id].status = "Complete"
            THEN [report_id |-> report_id, code |-> 200, status |-> "",
                  error |-> "", file |-> <<send_file(reports[report_id].file_path)>>]
            ELSE [report_id |-> report_id, code |-> 500, status |-> "",
                  error |-> "Unknown report status", file |-> <<>>]>>
    /\ UNCHANGED <<db, calls, probes, queries, metrics_memo, reports, thread, files>>

Next ==
    \/ app_run
    \/ trigger_report
    \/ \E report_id \in DOMAIN thread :
          \/ open_output_file(report_id)
          \/ open_output_file_fails(report_id)
          \/ write_row(report_id)
          \/ close_output_file(report_id)
          \/ finish_report(report_id)
    \/ \E report_id \in 0..MaxJobs : get_report(report_id)

Spec == Init /\ [][Next]_vars

\* The next statement of the worker thread of a job
worker(report_id) ==
    /\ report_id \in DOMAIN thread
    /\ \/ open_output_file(report_id)
       \/ open_output_file_fails(report_id)
       \/ write_row(report_id)
       \/ close_output_file(report_id)
       \/ finish_report(report_id)

\* The jobs with every started worker thread scheduled again and again
SpecFair == Spec /\ \A report_id \in 1..MaxJobs : WF_vars(worker(report_id))

-----------------------------------------------------------------------------
(* DataService.get_store_status_data statement by statement, called by two  *)
(* workers on the one DataService                                           *)

MaxRows == 3

Workers == {1, 2}

\* The store each worker asks for
store_of_worker == <<"s1", "s2">>

\* The observations a table is filled from, in a fixed order: two stores, four
\* instants, the status following the instant.
QueryPool ==
    << [store_id |-> "s1", timestamp_utc |-> Anchor - 5 * Day, status |-> "active"],
       [store_id |-> "s1", timestamp_utc |-> Anchor - 2 * Day, status |-> "inactive"],
       [store_id |-> "s1", timestamp_utc |-> Anchor - 30 * 60, status |-> "active"],
       [store_id |-> "s1", timestamp_utc |-> Anchor, status |-> "inactive"],
       [store_id |-> "s2", timestamp_utc |-> Anchor - 5 * Day, status |-> "active"],
       [store_id |-> "s2", timestamp_utc |-> Anchor - 2 * Day, status |-> "inactive"],
       [store_id |-> "s2", timestamp_utc |-> Anchor - 30 * 60, status |-> "active"],
       [store_id |-> "s2", timestamp_utc |-> Anchor, status |-> "inactive"] >>

\* The tables: 1..MaxRows rows of the pool, a row as often as wanted (the
\* loader inserts every line of the file, equal timestamps included).
QueryTables ==
    UNION {{[i \in 1..n |-> QueryPool[f[i]]] :
                f \in {g \in [1..n -> 1..Len(QueryPool)] :
                           \A i \in 1..(n - 1) : g[i] <= g[i + 1]}} :
           n \in 1..MaxRows}

\* func.max(StoreStatus.timestamp_utc)
max_timestamp(table) ==
    CHOOSE t \in {table[i].timestamp_utc : i \in 1..Len(table)} :
        \A i \in 1..Len(table) : table[i].timestamp_utc <= t

\* The ranges the report asks for: the hour and the day window, and the seven
\* days before the day window.
QueryRanges ==
    {<<current_time - Hour, current_time>>, <<current_time - Day, current_time>>,
     <<current_time - 8 * Day, current_time - Day>>}

idle == [store_id |-> "", start_time |-> 0, end_time |-> 0, pc |-> "idle", results |-> <<>>]

InitQuery ==
    /\ store_status \in QueryTables
    /\ business_hours = <<>>
    /\ store_timezones = <<>>
    /\ current_time = max_timestamp(store_status)
    /\ calls = <<>>
    /\ probes = <<>>
    /\ queries = [w \in Workers |-> idle]
    /\ NoJobs

\* A variant of results_of in which the list is kept on the service, one
\* list for all of its calls.
results_of_service(w) == queries[1].results

\* results: the list local to the call of worker w
results_of(w) == queries[w].results

\* Lines 250-273: one observation in each third of the range
good_coverage(results, start_time, end_time) ==
    LET time_range == end_time - start_time
        first_third_end == start_time + time_range \div 3
        second_third_end == start_time + (time_range * 2) \div 3
    IN  /\ Len(results) > 0
        /\ \E i \in 1..Len(results) : timestamp_of(results[i]) <= first_third_end
        /\ \E i \in 1..Len(results) : /\ timestamp_of(results[i]) > first_third_end
                                      /\ timestamp_of(results[i]) <= second_third_end
        /\ \E i \in 1..Len(results) : timestamp_of(results[i]) > second_third_end

\* The call of worker w goes on at pc with the list results
continue_query(w, pc, results) ==
    /\ queries' = [queries EXCEPT ![w].pc = pc, ![w].results = results]
    /\ UNCHANGED <<db, calls, probes, job_vars>>

\* Lines 233-273: the call and its first query, the range itself
query_in_range(w, start_time, end_time) ==
    /\ queries[w].pc = "idle"
    /\ LET store_id == store_of_worker[w]
           results == order_by_timestamp(
               {id \in rows_of_store(store_id) :
                   timestamp_of(id) >= start_time /\ timestamp_of(id) <= end_time})
       IN  queries' = [queries EXCEPT ![w] =
               [store_id |-> store_id, start_time |-> start_time, end_time |-> end_time,
                pc |-> IF Len(results) >= 3 \/ good_coverage(results, start_time, end_time)
                       THEN "returned" ELSE "before_range",
                results |-> results]]
    /\ UNCHANGED <<db, calls, probes, job_vars>>

\* Lines 277-287: the most recent record before the range
query_before_range(w) ==
    /\ queries[w].pc = "before_range"
    /\ LET before == {id \in rows_of_store(queries[w].store_id) :
                         timestamp_of(id) < queries[w].start_time}
       IN  continue_query(w, "after_range",
               append_missing(results_of(w), limit(order_by_timestamp_desc(before), 1)))

\* Lines 289-302: the closest record after the range, and the test that opens
\* the two 72-hour queries
query_after_range(w) ==
    /\ queries[w].pc = "after_range"
    /\ LET after == {id \in rows_of_store(queries[w].store_id) :
                        timestamp_of(id) > queries[w].end_time}
           results == IF Len(results_of(w)) < 3
                      THEN append_missing(results_of(w), limit(order_by_timestamp(after), 1))
                      ELSE results_of(w)
       IN  continue_query(w, IF Len(results) < 3 THEN "additional_history" ELSE "any_status",
                          results)

\* Lines 303-319: up to 5 records of the 72 hours before the range
query_additional_history(w) ==
    /\ queries[w].pc = "additional_history"
    /\ LET additional_history == limit(order_by_timestamp_desc(
               {id \in rows_of_store(queries[w].store_id) :
                   /\ timestamp_of(id) >= queries[w].start_time - 72 * Hour
                   /\ timestamp_of(id) < queries[w].start_time}), 5)
       IN  continue_query(w, "additional_future",
                          append_missing(results_of(w), reversed(additional_history)))

\* Lines 321-334: up to 5 records of the 72 hours after the range
query_additional_future(w) ==
    /\ queries[w].pc = "additional_future"
    /\ LET additional_future == limit(order_by_timestamp(
               {id \in rows_of_store(queries[w].store_id) :
                   /\ timestamp_of(id) > queries[w].end_time
                   /\ timestamp_of(id) <= queries[w].end_time + 72 * Hour}), 5)
       IN  continue_query(w, "any_status", append_missing(results_of(w), additional_future))

\* Lines 336-353: the first 10 records of the store as a last resort, the
\* sort and the return
query_any_status(w) ==
    /\ queries[w].pc = "any_status"
    /\ LET any_status == limit(order_by_timestamp(rows_of_store(queries[w].store_id)), 10)
           results == IF Len(results_of(w)) < 2
                      THEN append_missing(results_of(w), any_status)
                      ELSE results_of(w)
       IN  continue_query(w, "returned", sort_by_timestamp(results))

NextQuery ==
    \E w \in Workers :
        \/ \E range \in QueryRanges : query_in_range(w, range[1], range[2])
        \/ query_before_range(w)
        \/ query_after_range(w)
        \/ query_additional_history(w)
        \/ query_additional_future(w)
        \/ query_any_status(w)

SpecQuery == InitQuery /\ [][NextQuery]_vars

-----------------------------------------------------------------------------
(* Properties of the rows returned by _calculate_metrics *)

Returned == {i \in 1..Len(calls) : calls[i].raised = ""}

row_uptime(row, w) ==
    IF w = "hour" THEN row.uptime_last_hour
    ELSE IF w = "day" THEN row.uptime_last_day ELSE row.uptime_last_week

row_downtime(row, w) ==
    IF w = "hour" THEN row.downtime_last_hour
    ELSE IF w = "day" THEN row.downtime_last_day ELSE row.downtime_last_week

\* Three times the total of window w (minutes) in hundredths of the unit of
\* the window: 100 per minute in the hour window, 100 / 60 per minute in the
\* day and week windows.
three_totals(total, w) == IF w = "hour" THEN 300 * total ELSE 5 * total

\* C1: in every row returned by _calculate_metrics and for each window, the
\* rounded uptime and downtime are not negative, neither exceeds the capped
\* total business time T of the window, and uptime + downtime differs from T
\* by at most 0.01.
RowWithinTotal ==
    \A i \in Returned : \A w \in WindowTypes :
        LET uptime == row_uptime(calls[i].row, w)
            downtime == row_downtime(calls[i].row, w)
            T3 == three_totals(calls[i].total[w], w)
        IN  /\ uptime >= 0
            /\ downtime >= 0
            /\ 3 * uptime <= T3
            /\ 3 * downtime <= T3
            /\ Abs(3 * (uptime + downtime) - T3) <= 3

\* C1, the case: a returned row of a day or week window with uptime and
\* downtime both positive, where the interpolator scaled the two amounts down
\* to the total and the uptime is not a whole number of hundredths.
RowWithinTotalWitness ==
    \E i \in Returned : \E w \in {"day", "week"} :
        /\ row_uptime(calls[i].row, w) > 0
        /\ row_downtime(calls[i].row, w) > 0
        /\ calls[i].window[w].den > 1
        /\ (5 * calls[i].window[w].uptime) % (3 * calls[i].window[w].den) # 0

\* C2: the total business time computed for a window is never negative and
\* is at most 60 minutes for the hour, 24 hours for the day and 168 hours for
\* the week window.
TotalWithinWindow ==
    \A i \in Returned :
        /\ 0 <= calls[i].total["hour"] /\ calls[i].total["hour"] <= 60
        /\ 0 <= calls[i].total["day"] /\ calls[i].total["day"] <= 24 * 60
        /\ 0 <= calls[i].total["week"] /\ calls[i].total["week"] <= 168 * 60

\* C2, the case: a store open around the clock, whose three totals are the
\* whole windows.
TotalWithinWindowWitness ==
    \E i \in Returned :
        /\ calls[i].total["hour"] = 60
        /\ calls[i].total["day"] = 24 * 60
        /\ calls[i].total["week"] = 168 * 60

\* The observations of store s1 are one observation of the given status, at
\* an instant strictly inside window w.
OneObservationInside(status, w) ==
    /\ Cardinality(rows_of_store("s1")) = 1
    /\ \A id \in rows_of_store("s1") :
          /\ status_of(id) = status
          /\ window_start(w) < timestamp_of(id)
          /\ timestamp_of(id) < current_time

Open247 == business_hours_for_metrics("s1") = _generate_24_7_hours("s1")

\* C3 as stated: for a store open 24/7 whose only observation is one inactive
\* observation strictly inside the window, the window is all downtime: uptime
\* 0 and downtime the total business time, in each of the three windows.
SingleInactiveAllDowntime ==
    \A i \in Returned : \A w \in WindowTypes :
        Open247 /\ OneObservationInside("inactive", w) =>
            /\ row_uptime(calls[i].row, w) = 0
            /\ 3 * row_downtime(calls[i].row, w) = three_totals(calls[i].total[w], w)

\* The downtime, in minutes, of an interval of the given length that starts
\* inactive in a store open 24/7: the whole interval up to 3 hours, the first
\* hour of a longer one.
inactive_minutes(length) == IF length > 3 * Hour THEN 60 ELSE length \div 60

\* C3, amended: for a store open 24/7 whose only observation is one inactive
\* observation at t_mid strictly inside the window, each of the intervals
\* start -> t_mid and t_mid -> end is downtime when it is at most 3 hours long,
\* and downtime for its first hour and uptime for the rest when it is longer;
\* the window is all downtime only when neither interval is longer than 3 hours.
SingleInactiveSplitsLongIntervals ==
    \A i \in Returned : \A w \in WindowTypes :
        Open247 /\ OneObservationInside("inactive", w) =>
            \A id \in rows_of_store("s1") :
                LET downtime == inactive_minutes(timestamp_of(id) - window_start(w))
                                  + inactive_minutes(current_time - timestamp_of(id))
                IN  /\ row_downtime(calls[i].row, w) = round2(downtime, 1, w)
                    /\ row_uptime(calls[i].row, w)
                          = round2(calls[i].total[w] - downtime, 1, w)

\* C3, the case: the single inactive observation lies in a day or week window
\* more than 3 hours from a boundary, and the returned row shows uptime.
SingleInactiveWitness ==
    \E i \in Returned : \E w \in {"day", "week"} :
        /\ Open247 /\ OneObservationInside("inactive", w)
        /\ row_uptime(calls[i].row, w) > 0

\* The observations of store s1 are one active observation, 2 days before
\* the start of window w.
OneActiveTwoDaysBefore(w) ==
    /\ Cardinality(rows_of_store("s1")) = 1
    /\ \A id \in rows_of_store("s1") :
          /\ status_of(id) = "active"
          /\ timestamp_of(id) = window_start(w) - 2 * Day

\* C4: when the only observation of the store is one active observation 2
\* days before the start of the window, the window is all uptime: uptime the
\* total business time and downtime 0, in each window and for every schedule.
PriorActiveAllUptime ==
    \A i \in Returned : \A w \in WindowTypes :
        OneActiveTwoDaysBefore(w) =>
            /\ 3 * row_uptime(calls[i].row, w) = three_totals(calls[i].total[w], w)
            /\ row_downtime(calls[i].row, w) = 0

\* C5: for a store with no observation at all, _calculate_metrics returns a
\* row in which each window has uptime 0 and downtime equal to the total
\* business time of the window.
NoObservationAllDowntime ==
    \A i \in 1..Len(calls) :
        rows_of_store(calls[i].store_id) = {} =>
            /\ calls[i].raised = ""
            /\ \A w \in WindowTypes :
                  /\ row_uptime(calls[i].row, w) = 0
                  /\ 3 * row_downtime(calls[i].row, w)
                        = three_totals(calls[i].total[w], w)

\* Store s1 has no observation in window w, and its most recent observation
\* before the window lies within the 7 days before the start of the window
\* and is inactive.
PriorInactiveWithinWeek(w) ==
    LET last_known == get_latest_status_before_range("s1", window_start(w))
    IN  /\ \A id \in rows_of_store("s1") : timestamp_of(id) < window_start(w)
        /\ last_known # 0
        /\ timestamp_of(last_known) >= window_start(w) - 7 * Day
        /\ status_of(last_known) = "inactive"

\* C19: a window without an observation of the store, whose most recent
\* observation before the window is inactive and at most 7 days before its
\* start, is all downtime: the window metrics are uptime 0 and downtime the
\* total business time of the window.
PriorInactiveAllDowntime ==
    \A i \in Returned : \A w \in WindowTypes :
        PriorInactiveWithinWeek(w) =>
            /\ calls[i].window[w].uptime = 0
            /\ calls[i].window[w].downtime = calls[i].total[w] * calls[i].window[w].den

\* C20: when the total business time of a window is zero, the window
\* metrics are uptime 0 and downtime 0 whatever the observations of the store
\* are, and the row has uptime 0 and downtime 0 for that window.
NoBusinessTimeNoMetrics ==
    \A i \in Returned : \A w \in WindowTypes :
        calls[i].total[w] = 0 =>
            /\ calls[i].window[w].uptime = 0
            /\ calls[i].window[w].downtime = 0
            /\ row_uptime(calls[i].row, w) = 0
            /\ row_downtime(calls[i].row, w) = 0

\* C20, the case: the store is closed during the whole last hour, it has an
\* inactive observation inside that hour, and its day window has downtime.
NoBusinessTimeNoMetricsWitness ==
    \E i \in Returned :
        /\ calls[i].total["hour"] = 0
        /\ \E id \in rows_of_store("s1") :
              /\ timestamp_of(id) > window_start("hour")
              /\ status_of(id) = "inactive"
        /\ row_downtime(calls[i].row, "day") > 0

\* The points of a frame with every timestamp before start_time moved to
\* start_time and every timestamp after end_time moved to end_time: the
\* intervals between them are those of the frame cut to the window.
clipped_points(points, start_time, end_time) ==
    [i \in 1..Len(points) |->
        [timestamp_utc |-> Max(start_time, Min(points[i].timestamp_utc, end_time)),
         status |-> points[i].status]]

\* The metrics of window w of store s1 when the intervals of the frame are
\* cut to the window before they are measured
metrics_of_clipped(w) ==
    LET rules == business_hours_for_metrics("s1")
        timezone == ZoneOffsets[get_store_timezone("s1")]
        start_time == window_start(w)
        status_data == get_store_status_data("s1", start_time, current_time)
        total == total_business_time(start_time, current_time, rules, timezone, w)
    IN  time_range_result(total, status_data,
            get_store_status_data("s1", start_time - 7 * Day, start_time),
            get_latest_status_before_range("s1", start_time),
            scale_to_total(
                sum_intervals(clipped_points(frame_points(status_data, start_time,
                                                          current_time),
                                             start_time, current_time),
                              1, rules, timezone, w),
                total),
            w)

\* The same amounts of uptime and of downtime
same_amounts(a, b) ==
    /\ a.uptime * b.den = b.uptime * a.den
    /\ a.downtime * b.den = b.downtime * a.den

\* C27: when get_store_status_data returns observations from before the
\* start of the window, the window metrics are those of the intervals cut to
\* the window: business time before the start of the window adds to neither
\* uptime nor downtime.
OnlyWindowTimeCounts ==
    \A i \in Returned : \A w \in WindowTypes :
        get_store_status_data("s1", window_start(w), current_time) # <<>> =>
            same_amounts(calls[i].window[w], metrics_of_clipped(w))

\* Store s1 has observations, all of them active
AllActive ==
    /\ rows_of_store("s1") # {}
    /\ \A id \in rows_of_store("s1") : status_of(id) = "active"

\* C28: for a store all of whose observations are active, the row has
\* downtime 0 and uptime equal to the total business time in each of the three
\* windows, whatever the schedule.
AllActiveNoDowntime ==
    \A i \in Returned : \A w \in WindowTypes :
        AllActive =>
            /\ row_downtime(calls[i].row, w) = 0
            /\ 3 * row_uptime(calls[i].row, w) = three_totals(calls[i].total[w], w)

\* C29: in every row returned, the uptime of the last day is at most the
\* uptime of the last week, and the downtime of the last day is at most the
\* downtime of the last week (both figures are in hundredths of an hour).
DayWithinWeek ==
    \A i \in Returned :
        /\ calls[i].row.uptime_last_day <= calls[i].row.uptime_last_week
        /\ calls[i].row.downtime_last_day <= calls[i].row.downtime_last_week

-----------------------------------------------------------------------------
(* Properties of _is_business_time *)

\* The rules of store s1 for the weekday of a local instant.
rules_of_day(local_time) ==
    LET rules == get_business_hours("s1")
    IN  {i \in 1..Len(rules) : rules[i].day_of_week = weekday(local_time)}

\* C6: on a weekday whose only rule is an overnight rule (end before start,
\* such as 22:00-02:00), the store is open exactly when the time of day is at
\* or after the start or at or before the end: at 23:00 and 01:00, not at 12:00.
OvernightRuleOpen ==
    \A i \in 1..Len(probes) :
        LET rules == get_business_hours("s1")
            today == rules_of_day(probes[i].local_time)
            time_str == time_of_day(probes[i].local_time)
        IN  \A r \in today :
                today = {r} /\ rules[r].end_time_local < rules[r].start_time_local =>
                    (probes[i].is_open <=>
                        \/ time_str >= rules[r].start_time_local
                        \/ time_str <= rules[r].end_time_local)

\* C16: on a weekday with exactly one rule, the rule not overnight and of at
\* least 10 minutes, the store is open exactly when the time of day is from
\* the start to the end of the rule; a rule that ends at 23:59:59 does not
\* make the store open all day when no other rule of the day starts before
\* 06:00.
SingleRuleOpenIffInside ==
    \A i \in 1..Len(probes) :
        LET rules == get_business_hours("s1")
            today == rules_of_day(probes[i].local_time)
            time_str == time_of_day(probes[i].local_time)
        IN  \A r \in today :
                /\ today = {r}
                /\ rules[r].end_time_local >= rules[r].start_time_local
                /\ minutes_of(rules[r].end_time_local)
                       - minutes_of(rules[r].start_time_local) >= 10
                => (probes[i].is_open <=>
                        /\ rules[r].start_time_local <= time_str
                        /\ time_str <= rules[r].end_time_local)

\* The span of a rule in whole minutes, from its start to its end
span_minutes(hours) == minutes_of(hours.end_time_local) - minutes_of(hours.start_time_local)

\* C17: on a weekday with at least one rule of 10 minutes or more, no rule
\* overnight, none ending at 23:59:59 and none containing the time of day, a
\* further rule of less than 10 minutes on that weekday does not make the
\* store open: the 09:00-21:00 default is for weekdays whose rules are all
\* that short.
DefaultWindowOnlyWhenAllShort ==
    \A i \in 1..Len(probes) :
        LET rules == get_business_hours("s1")
            today == rules_of_day(probes[i].local_time)
            time_str == time_of_day(probes[i].local_time)
        IN  /\ \E r \in today : span_minutes(rules[r]) >= 10
            /\ \E r \in today : span_minutes(rules[r]) < 10
            /\ \A r \in today :
                  /\ rules[r].end_time_local >= rules[r].start_time_local
                  /\ rules[r].end_time_local # HMS(23, 59, 59)
                  /\ ~(rules[r].start_time_local <= time_str
                       /\ time_str <= rules[r].end_time_local)
            => ~probes[i].is_open

\* The rules stored for s1 all span less than 10 minutes and sum to less than
\* 600 minutes a week.
Degenerate ==
    LET rules == get_business_hours("s1")
    IN  /\ business_hours # <<>>
        /\ \A i \in 1..Len(rules) : rule_duration(rules[i]) < 10
        /\ total_weekly_minutes(rules) < 600

\* C7: for a store whose rules all span less than 10 minutes and sum to less
\* than 600 minutes a week, the schedule used for its metrics is 09:00-21:00
\* on each of the seven weekdays, and the store is open at 10:00 local on
\* every weekday.
DegenerateUsesStandardHours ==
    Degenerate =>
        /\ business_hours_for_metrics("s1")
              = daily("s1", EveryDay, HMS(9, 0, 0), HMS(21, 0, 0))
        /\ \A i \in 1..Len(probes) :
              time_of_day(probes[i].local_time) = HMS(10, 0, 0) => probes[i].metrics_open

\* C7, the case: a degenerate schedule probed at 10:00 on a weekday for which
\* the store has no rule.
DegenerateWitness ==
    /\ Degenerate
    /\ \E i \in 1..Len(probes) :
          /\ time_of_day(probes[i].local_time) = HMS(10, 0, 0)
          /\ rules_of_day(probes[i].local_time) = {}
          /\ probes[i].metrics_open

-----------------------------------------------------------------------------
(* Properties of repeated calls and of the report jobs *)

JobStatusTransitions ==
    [][/\ \A j \in DOMAIN reports' :
             reports'[j].status \in {"Running", "Complete", "Error"}
       /\ \A j \in DOMAIN reports' \ DOMAIN reports : reports'[j].status = "Running"
       /\ \A j \in DOMAIN reports :
             /\ j \in DOMAIN reports'
             /\ \/ reports'[j].status = reports[j].status
                \/ /\ reports[j].status = "Running"
                   /\ reports'[j].status \in {"Complete", "Error"}
       /\ \A i \in 1..Len(responses') :
             responses'[i].error # "Unknown report status"]_vars

\* C9, the case: one job has become Complete and another Error.
JobStatusWitness ==
    \E j, k \in DOMAIN reports :
        reports[j].status = "Complete" /\ reports[k].status = "Error"

\* C10: a job whose run raised is in Error with the message of the exception
\* and without a file path, and get_report answers with a file only for a
\* job that is Complete.
FailedJobServesNoFile ==
    /\ \A j \in DOMAIN thread :
          thread[j].exception # "" =>
              reports[j] = [status |-> "Error", error |-> thread[j].exception]
    /\ \A i \in 1..Len(responses) :
          responses[i].file # <<>> =>
              reports[responses[i].report_id].status = "Complete"

\* C10, the case: a job failed after rows were written, its file is on disk,
\* and get_report answered for it with the error.
FailedJobWitness ==
    \E j \in DOMAIN reports :
        /\ reports[j].status = "Error"
        /\ j \in DOMAIN files
        /\ Len(files[j].rows) > 0
        /\ \E i \in 1..Len(responses) :
              /\ responses[i].report_id = j
              /\ responses[i].code = 500
              /\ responses[i].error = thread[j].exception
              /\ responses[i].file = <<>>

-----------------------------------------------------------------------------
(* Properties of the intervals of _interpolate_status *)

\* The business time of an interval of store s1 in the unit of the window,
\* as _calculate_interval_metrics measures it
interval_business_time(start_interval, end_interval, time_range_type) ==
    _calculate_interval_metrics(start_interval, end_interval, "active",
                                business_hours_for_metrics("s1"),
                                ZoneOffsets[get_store_timezone("s1")], time_range_type)[1]

\* The instant is within the business hours of store s1 in its local time
open_at(utc_time) ==
    _is_business_time(get_local_time(utc_time, ZoneOffsets[get_store_timezone("s1")]),
                      business_hours_for_metrics("s1"))

\* The interval of a turn is longer than 3 hours and the store is open at
\* both of its endpoints
LongGap(p) ==
    /\ p.end_interval - p.start_interval > 3 * Hour
    /\ open_at(p.start_interval) /\ open_at(p.end_interval)

\* C18: an interval longer than 3 hours with both endpoints open gives all
\* its business time to uptime when its left status is active, and the
\* business time of its first hour to downtime and that of the remainder to
\* uptime when its left status is inactive; every other interval gives all
\* its business time to the status of its left endpoint.
LongGapContribution ==
    \A i \in 1..Len(probes) :
        LET p == probes[i]
            whole == interval_business_time(p.start_interval, p.end_interval,
                                            p.time_range_type)
            first_hour == interval_business_time(p.start_interval, p.start_interval + Hour,
                                                 p.time_range_type)
            remainder == interval_business_time(p.start_interval + Hour, p.end_interval,
                                                p.time_range_type)
        IN  p.interval =
                IF LongGap(p)
                THEN IF p.status = "active" THEN <<whole, 0>> ELSE <<remainder, first_hour>>
                ELSE IF p.status = "active" THEN <<whole, 0>> ELSE <<0, whole>>

\* C18, the case: an inactive interval of more than 3 hours with both
\* endpoints open, business time in its first hour and in its remainder.
LongGapContributionWitness ==
    \E i \in 1..Len(probes) :
        /\ probes[i].status = "inactive"
        /\ LongGap(probes[i])
        /\ probes[i].interval[1] > 0
        /\ probes[i].interval[2] > 0

-----------------------------------------------------------------------------
(* Properties of the scans of a range *)

\* The measured ranges, and the turns of the loop over the intervals
Measured == {i \in 1..Len(probes) : "interval_metrics" \in DOMAIN probes[i]}

Turns == {i \in 1..Len(probes) : "interval" \in DOMAIN probes[i]}

\* C21: on a range whose end is not after its start,
\* _calculate_interval_metrics returns (0, 0),
\* _calculate_business_time_in_interval returns 0 and the two scans of the
\* total business time return 0; and the interval between two consecutive
\* observations of one timestamp adds nothing to uptime and downtime.
EmptyRangeYieldsZero ==
    /\ \A i \in Measured :
          probes[i].end_time <= probes[i].start_time =>
              /\ probes[i].interval_metrics = <<0, 0>>
              /\ probes[i].business_time = 0
              /\ probes[i].business_minutes = 0
              /\ probes[i].business_hours_count = 0
    /\ \A i \in Turns :
          probes[i].end_interval <= probes[i].start_interval =>
              probes[i].interval = <<0, 0>>

\* C21, the cases: the turn of the loop between two observations of one
\* timestamp, and a range that ends an hour before it starts, both in a store
\* that is open at these instants.
EmptyRangeYieldsZeroWitness ==
    /\ \E i \in Turns :
          /\ probes[i].end_interval = probes[i].start_interval
          /\ open_at(probes[i].start_interval)
    /\ \E i \in Measured :
          /\ probes[i].end_time = probes[i].start_time - Hour
          /\ open_at(probes[i].start_time)
          /\ open_at(probes[i].end_time)

\* The length of a measured range in minutes
nominal_minutes(p) == (p.end_time - p.start_time) \div 60

\* C23: the scan of an interval advances by 15 minutes a turn, so that it
\* takes one turn for each started quarter of an hour of the interval and at
\* most 1000 turns, also for an interval of more than 250 hours; the value
\* returned is not negative and not larger than the length of the interval.
IntervalScanBounded ==
    \A i \in Measured :
        LET p == probes[i]
        IN  /\ p.iteration_count <= 1000
            /\ p.end_time > p.start_time =>
                  p.iteration_count
                      = Min(CeilDiv(p.end_time - p.start_time, 15 * 60), 1000)
            /\ p.business_time >= 0
            /\ p.business_time <= Max(nominal_minutes(p), 0)

\* C23, the case: an interval of more than 250 hours in a store that is open
\* at some time, scanned in 1000 turns.
IntervalScanBoundedWitness ==
    \E i \in Measured :
        /\ probes[i].end_time - probes[i].start_time > 250 * Hour
        /\ probes[i].iteration_count = 1000
        /\ probes[i].business_time > 0

-----------------------------------------------------------------------------
(* Properties of a store without business hours *)

\* The seven rules of a store that is always open
AlwaysOpenRules(store_id) ==
    [day \in 1..7 |-> [store_id |-> store_id, day_of_week |-> day - 1,
                       start_time_local |-> 0,
                       end_time_local |-> 23 * 3600 + 59 * 60 + 59]]

\* C15: a store without any business hours rule gets the seven rules
\* 00:00:00-23:59:59, which the weekly-total check of _calculate_metrics
\* keeps; it is open at every instant probed on every weekday; and the total
\* business time of its hour, day and week window is 60 minutes, 24 hours and
\* 168 hours.
AlwaysOpenWithoutRules ==
    /\ select_hours(business_hours, "s1") = <<>> =>
          /\ get_business_hours("s1") = AlwaysOpenRules("s1")
          /\ business_hours_for_metrics("s1") = AlwaysOpenRules("s1")
          /\ \A i \in 1..Len(probes) : probes[i].is_open /\ probes[i].metrics_open
    /\ \A i \in 1..Len(calls) :
          select_hours(business_hours, calls[i].store_id) = <<>> =>
              /\ calls[i].raised = ""
              /\ calls[i].total = [hour |-> 60, day |-> 24 * 60, week |-> 168 * 60]

\* C15, the case: the table of business hours is empty, the store was probed
\* in the last second of a Sunday, and the metrics of a store were computed.
AlwaysOpenWithoutRulesWitness ==
    /\ business_hours = <<>>
    /\ \E i \in 1..Len(probes) : probes[i].local_time = 6 * Day + HMS(23, 59, 59)
    /\ Len(calls) > 0

-----------------------------------------------------------------------------
(* Properties of get_store_status_data *)

\* The calls that have returned
ReturnedQueries == {w \in Workers : queries[w].pc = "returned"}

\* The stages of the widened search
WidenedStages == {"after_range", "additional_history", "additional_future", "any_status"}

\* C11: whatever the interleaving of the statements of two workers asking for
\* two different stores, every observation in a worker's list, at every stage
\* of its call, is of the store the worker asked for, and the list a call
\* returns is the one get_store_status_data gives for its arguments alone.
NoCrossStoreLeakage ==
    \A w \in DOMAIN queries :
        /\ \A i \in 1..Len(queries[w].results) :
              store_status[queries[w].results[i]].store_id = store_of_worker[w]
        /\ queries[w].pc = "returned" =>
              queries[w].results = get_store_status_data(queries[w].store_id,
                                       queries[w].start_time, queries[w].end_time)

\* Both workers are in the middle of the widened search, each with
\* observations in its list, and the table holds both stores.
NoCrossStoreLeakageWitness ==
    /\ DOMAIN queries = Workers
    /\ queries[1].pc = "additional_future" /\ queries[2].pc = "after_range"
    /\ queries[1].results # <<>> /\ queries[2].results # <<>>

\* The rows of a list that lie in the range of the call of worker w
in_range_of(w) ==
    {i \in 1..Len(queries[w].results) :
        /\ timestamp_of(queries[w].results[i]) >= queries[w].start_time
        /\ timestamp_of(queries[w].results[i]) <= queries[w].end_time}

\* C13: the list a call of get_store_status_data returns is in ascending
\* order of timestamp, on the early return from the range itself and on the
\* return of the widened search.
ReturnedInTimestampOrder ==
    \A w \in ReturnedQueries :
        \A i, k \in 1..Len(queries[w].results) :
            i < k => timestamp_of(queries[w].results[i]) <= timestamp_of(queries[w].results[k])

\* C13, the case: a widened search has returned observations of the range
\* together with observations from before it, which it had appended after
\* those of the range.
ReturnedInTimestampOrderWitness ==
    \E w \in ReturnedQueries :
        /\ in_range_of(w) # {}
        /\ Cardinality(in_range_of(w)) < 3
        /\ \E i \in 1..Len(queries[w].results) :
              timestamp_of(queries[w].results[i]) < queries[w].start_time

\* The records of the store of worker w that lie in the range of its call
range_rows(w) ==
    {id \in rows_of_store(queries[w].store_id) :
        /\ timestamp_of(id) >= queries[w].start_time
        /\ timestamp_of(id) <= queries[w].end_time}

\* The returned calls that widened their search: fewer than 3 observations in
\* the range and not one in each third of it
WidenedQueries ==
    {w \in ReturnedQueries :
        /\ Cardinality(range_rows(w)) < 3
        /\ ~good_coverage(order_by_timestamp(range_rows(w)),
                          queries[w].start_time, queries[w].end_time)}

\* C14 as stated: the list a widened search returns never holds two
\* observations with the same timestamp.
DeduplicatedByTimestamp ==
    \A w \in WidenedQueries :
        \A i, k \in 1..Len(queries[w].results) :
            i # k => timestamp_of(queries[w].results[i]) # timestamp_of(queries[w].results[k])

\* C14: the list a widened search returns never holds one record twice, and
\* it holds every record of the store that lies in the range, those with one
\* and the same timestamp included.
DeduplicatedByRecord ==
    \A w \in WidenedQueries :
        /\ \A i, k \in 1..Len(queries[w].results) :
              i # k => queries[w].results[i] # queries[w].results[k]
        /\ \A id \in range_rows(w) : in_results(queries[w].results, id)

\* C14, the case: a widened search has returned two records of one timestamp,
\* and a record from before the range that two of its queries have found.
DeduplicatedByRecordWitness ==
    \E w \in WidenedQueries :
        /\ \E i, k \in 1..Len(queries[w].results) :
              /\ i # k
              /\ timestamp_of(queries[w].results[i]) = timestamp_of(queries[w].results[k])
        /\ \E i \in 1..Len(queries[w].results) :
              /\ timestamp_of(queries[w].results[i]) < queries[w].start_time
              /\ timestamp_of(queries[w].results[i]) >= queries[w].start_time - 72 * Hour

\* C26: a call of get_store_status_data returns the empty list exactly when
\* the store has no observation at all, whatever the range; and when it does,
\* the store has no observation in the seven days before the range and no
\* last observation before the range either, so that no branch of
\* _calculate_time_range_metrics that takes the status of a prior observation
\* for a window without data is ever entered.
EmptyOnlyWithoutObservation ==
    \A w \in ReturnedQueries :
        /\ queries[w].results = <<>> <=> rows_of_store(queries[w].store_id) = {}
        /\ queries[w].results = <<>> =>
              /\ get_store_status_data(queries[w].store_id,
                     queries[w].start_time - 7 * Day, queries[w].start_time) = <<>>
              /\ get_latest_status_before_range(queries[w].store_id,
                                                queries[w].start_time) = 0

\* C26, the case: one call has returned observations of its store although
\* none of them lies in its range, and the other call has returned the empty
\* list for a store without observation.
EmptyOnlyWithoutObservationWitness ==
    /\ ReturnedQueries = Workers
    /\ range_rows(1) = {}
    /\ queries[1].results # <<>>
    /\ queries[2].results = <<>>

-----------------------------------------------------------------------------
(* Properties of the report file *)

\* The run of job j returned without an exception
FinishedWithoutError == {j \in DOMAIN reports : reports[j].status = "Complete"}

\* The row of the file for a store: its id and the six figures of its metrics
row_of_store(store_id) ==
    LET row == metrics_memo.metrics[store_id].row
    IN  <<store_id, row.uptime_last_hour, row.uptime_last_day, row.uptime_last_week,
          row.downtime_last_hour, row.downtime_last_day, row.downtime_last_week>>

\* C12: the file of a run that finished without error has the header store_id,
\* uptime of the last hour, day, week, downtime of the last hour, day, week,
\* followed by exactly one row for each store id of get_all_store_ids, every
\* store once and in that order, the seven values in the order of the header.
OneRowPerStore ==
    \A j \in FinishedWithoutError :
        /\ files[j].header = <<"store_id", "uptime_last_hour", "uptime_last_day",
                               "uptime_last_week", "downtime_last_hour",
                               "downtime_last_day", "downtime_last_week">>
        /\ Len(files[j].rows) = Len(get_all_store_ids)
        /\ \A i \in 1..Len(files[j].rows) :
              files[j].rows[i] = row_of_store(get_all_store_ids[i])
        /\ \A i, k \in 1..Len(files[j].rows) :
              files[j].rows[i][1] = files[j].rows[k][1] => i = k

\* C12, the case: a finished run over two stores whose rows differ and whose
\* second row has positive and distinct uptime and downtime figures.
OneRowPerStoreWitness ==
    \E j \in FinishedWithoutError :
        /\ Len(files[j].rows) = 2
        /\ files[j].rows[1] # files[j].rows[2]
        /\ \E i \in 1..2 : files[j].rows[i][2] # files[j].rows[i][5]

-----------------------------------------------------------------------------
(* Properties of the run of a report job and of concurrent jobs *)

\* The stores, by their place in get_all_store_ids, whose metrics raise
Raising == {i \in 1..Len(get_all_store_ids) :
               metrics_memo.metrics[get_all_store_ids[i]].raised # ""}

\* The first of them
FirstRaising == {i \in Raising : \A k \in Raising : i <= k}

\* C22: when the metrics of a store raise, a report run stops at the first
\* such store: at every moment its file holds rows of earlier stores only,
\* each store's own row in the order of the stores; once the worker is done
\* the file holds the rows of all the earlier stores and no other, and the
\* job is in Error with the exception of that store; the job is never
\* Complete.
RunStopsAtRaisingStore ==
    \A j \in DOMAIN reports : \A i \in FirstRaising :
        /\ reports[j].status # "Complete"
        /\ j \in DOMAIN files =>
              /\ Len(files[j].rows) < i
              /\ \A k \in 1..Len(files[j].rows) :
                    files[j].rows[k] = row_of_store(get_all_store_ids[k])
              /\ thread[j].pc = "done" =>
                    /\ Len(files[j].rows) = i - 1
                    /\ reports[j] = report_failed(j,
                           metrics_memo.metrics[get_all_store_ids[i]].raised)

\* C22, the case: the second of three stores raises, the worker is done, and
\* the file holds the row of the first store.
RunStopsAtRaisingStoreWitness ==
    \E j \in DOMAIN reports :
        /\ FirstRaising = {2}
        /\ Len(get_all_store_ids) = 3
        /\ thread[j].pc = "done"
        /\ j \in DOMAIN files
        /\ Len(files[j].rows) = 1

\* C24: with its worker thread scheduled fairly, every triggered job leaves
\* Running and is Complete or in Error from some moment on.
JobEventuallyEnds ==
    \A j \in 1..MaxJobs :
        (j \in DOMAIN reports)
            ~> (j \in DOMAIN reports /\ reports[j].status \in {"Complete", "Error"})

\* C24, the case: two jobs were triggered over two stores, both workers went
\* through the loop over the stores, and both jobs are Complete.
JobEventuallyEndsWitness ==
    /\ Len(reports) = 2
    /\ \A j \in DOMAIN reports :
          /\ reports[j].status = "Complete"
          /\ thread[j].pc = "done"
          /\ thread[j].stores_processed = 2

\* The file of job j, <<>> while it does not exist
file_of(f, j) == IF j \in DOMAIN f THEN f[j] ELSE <<>>

\* C25: in every step of every interleaving of the jobs, the registry entry
\* and the output file of a job change only in a step of that job's own
\* worker, which changes the entry and the file of no other job; a new entry
\* is the Running entry of a job id not in the registry before; and no two
\* jobs have the same output file.
JobsDoNotInterfere ==
    [][/\ \A j \in DOMAIN reports :
             reports'[j] # reports[j] \/ file_of(files', j) # file_of(files, j) =>
                 /\ thread'[j] # thread[j]
                 /\ \A k \in DOMAIN reports \ {j} :
                       /\ thread'[k] = thread[k]
                       /\ reports'[k] = reports[k]
                       /\ file_of(files', k) = file_of(files, k)
       /\ \A j \in DOMAIN reports' \ DOMAIN reports :
             /\ reports'[j] = report_running
             /\ Cardinality(DOMAIN reports') = Cardinality(DOMAIN reports) + 1
       /\ \A j, k \in DOMAIN reports' :
             j # k => /\ output_file(j) # output_file(k)
                      /\ reports'[j].status = "Complete" /\ reports'[k].status = "Complete"
                            => reports'[j].file_path # reports'[k].file_path]_vars

\* C25, the case: one job has ended after rows were written while the worker
\* of another job is in the middle of the loop over the stores.
JobsDoNotInterfereWitness ==
    \E j, k \in DOMAIN reports :
        /\ j # k
        /\ reports[j].status \in {"Complete", "Error"}
        /\ thread[j].stores_processed > 0
        /\ reports[k].status = "Running"
        /\ thread[k].pc = "rows"
        /\ thread[k].stores_processed > 0

\* The entry of a job holds a file path
has_file_path(entry) == "file_path" \in DOMAIN entry /\ entry.file_path # "None"

\* The file has its header and one row for every store, and is closed
finished_file(f) ==
    /\ f.closed
    /\ f.header = fieldnames
    /\ Len(f.rows) = Len(get_all_store_ids)

\* C30: in every state, the entry of a job holds a file path exactly when
\* its status is Complete; the file of a Complete job is the one named after
\* the job, with the header and the rows of all the stores, and closed; and
\* every file get_report has served is such a file.
CompleteMeansFinishedFile ==
    /\ \A j \in DOMAIN reports :
          /\ has_file_path(reports[j]) <=> reports[j].status = "Complete"
          /\ reports[j].status = "Complete" =>
                /\ reports[j].file_path = output_file(j)
                /\ j \in DOMAIN files
                /\ finished_file(files[j])
    /\ \A i \in 1..Len(responses) :
          responses[i].file # <<>> =>
              /\ finished_file(responses[i].file[1])
              /\ responses[i].file[1] = files[responses[i].report_id]

\* C30, the case: get_report has served the file of a Complete job over two
\* stores while the worker of another job has its file open with one row.
CompleteMeansFinishedFileWitness ==
    \E i \in 1..Len(responses) : \E k \in DOMAIN files :
        /\ responses[i].file # <<>>
        /\ Len(responses[i].file[1].rows) = 2
        /\ k # responses[i].report_id
        /\ ~files[k].closed
        /\ Len(files[k].rows) = 1

====
